---- MODULE Spec2Model ----
(***************************************************************************)
(* Crochet: the service/controller lifecycle of the server and the client  *)
(* process (src/src/server.ts, src/src/client.ts) and the definition       *)
(* registry and the typed function and event channels (src/src/core.ts),   *)
(* and the tag components (src/unnamed/part_001).                          *)
(*                                                                         *)
(* Execution model.  Each process runs Lua threads cooperatively: a piece  *)
(* of code runs without interruption until it calls user code (a hook) or  *)
(* a yielding engine function (WaitForChild).  A hook (onInit, onStart) is *)
(* user code: it may return, throw, yield, or call back into Crochet, so   *)
(* between the begin and the end of a hook every other operation of the    *)
(* same process may run.  The two processes run in parallel.               *)
(***************************************************************************)
EXTENDS Integers, Sequences, FiniteSets, TLC

\* ---- bounds ----
MaxTicks == 1          \* Heartbeat signals delivered per process
MaxStartCalls == 3     \* CrochetClient.start() calls made
NumIds == 3            \* identifiers available to definitions
MaxAttributeDefinitions == 2   \* AttributeDefinition objects created per name
MaxArgs == 3           \* arguments passed to one invoke or fire
MaxHandles == 2        \* channel instances of one name in one folder
MaxListeners == 2      \* connections made to one event
MaxTagOps == 3         \* AddTag / RemoveTag calls made on the entities

\* ---- inputs ----
\* Class names: tostring(constructor) is the key of the services/controllers map.
ServiceKeys == {"SvcA", "SvcB"}
ControllerKeys == {"CtlA", "CtlB"}
\* The optional lifecycle hooks a class may implement (core.ts OnInit, OnStart, OnHeartbeat).
Hooks == {"onInit", "onStart", "onHeartbeat"}
\* The hook sets of the classes that get registered.
HookSets == {{}, {"onStart"}, {"onInit", "onStart"}, {"onStart", "onHeartbeat"}}
Ids == 1..NumIds

\* Runtime values passed through channels: a value is its typeOf and a payload.
Values == {[type |-> "string", v |-> "a"], [type |-> "number", v |-> "1"],
           [type |-> "boolean", v |-> "true"]}
\* no value (a call that failed returns nothing)
NoValue == [type |-> "undefined", v |-> "none"]
\* the values callers pass as arguments, and the values bindings return
ArgValues == {x \in Values : x.type \in {"string", "number"}}
ReturnValues == {x \in Values : x.type \in {"boolean", "string"}}
\* the argument lists of an invoke or a fire (...params)
ArgLists == UNION {[1..n -> ArgValues] : n \in 0..MaxArgs}
\* A type guard (TypeCheck<unknown>) is named by the typeOf it accepts.
Guard(g, x) == IF g = "number?" THEN x.type \in {"number", "undefined"} ELSE x.type = g
\* FunctionDefinition objects: one per identifier (the constructor refuses a second one).
\* hasParameterTypeguards / hasReturnTypeGuard: the optional field is present.
FunctionDefinitions ==
    {[functionIdentifier |-> "FnTyped",
      hasParameterTypeguards |-> TRUE, parameterTypeguards |-> <<"string", "number">>,
      hasReturnTypeGuard |-> TRUE, returnTypeGuard |-> "boolean"],
     [functionIdentifier |-> "FnPlain",
      hasParameterTypeguards |-> FALSE, parameterTypeguards |-> << >>,
      hasReturnTypeGuard |-> FALSE, returnTypeGuard |-> "none"]}
FunctionNames == {d.functionIdentifier : d \in FunctionDefinitions}
\* EventDefinition objects: one per identifier.
EventDefinitions ==
    {[eventIdentifier |-> "EvTyped",
      hasParameterTypeguards |-> TRUE, parameterTypeguards |-> <<"string", "number">>],
     [eventIdentifier |-> "EvPlain",
      hasParameterTypeguards |-> FALSE, parameterTypeguards |-> << >>]}
EventNames == {d.eventIdentifier : d \in EventDefinitions}
\* the instances that can carry a tag, and the tags components are registered for
Entities == {"e1", "e2"}
Tags == {"T1", "T2"}
\* the functions user code binds to a channel
Bindings == {"h1", "h2"}

VARIABLES
    \* server process (CrochetServerImplementation)
    starting,          \* private starting: boolean
    services,          \* private services: Map<key, Service>; a service is its hook set
    folderParented,    \* CrochetFolder.Parent = script.Parent has been executed
    startedMarkers,    \* number of 'Started' BoolValues parented to script.Parent
    srvPc,             \* position of the start() call: idle, loop, hook, done, failed
    srvTodo,           \* services of the forEach snapshot not visited yet
    srvCur,            \* the service whose onStart is running (srvPc = "hook")
    srvHeartbeat,      \* Heartbeat connections of the server, in connection order
    svcInit,           \* per key: state of the onInit call (none, running, done, failed)
    svcStart,          \* per key: state of the onStart call
    svcStartCount,     \* per key: number of onStart invocations
    svcConstructed,    \* per key: number of constructor invocations
    srvRegOrder,       \* keys in the order registerService stored them
    srvInitOrder,      \* keys in the order their onInit was invoked
    srvMidRegister,    \* start() was entered while a registerService call had not returned
    srvTicks,          \* Heartbeat signals fired so far in the server
    srvHbCalls,        \* per key: number of onHeartbeat invocations
    srvRes,            \* outcome of the last server API call
    serviceInstance,   \* per key: the instance stored in services (its construction number, 0: none)
    srvGot,            \* the value returned by the last getService call
    \* client process (CrochetClientImplementation)
    cliConstructed,    \* the constructor has returned (WaitForChild of the folders)
    controllers,       \* private controllers: Map<key, Controller>
    startPromise,      \* private startPromise: undefined, pending, resolved
    cliSequences,      \* number of start sequences created (Promise.defer calls)
    cliPc,             \* position of the deferred sequence: idle, waiting, loop, hook, done, failed
    cliTodo,           \* controllers of the forEach snapshot not visited yet
    cliCur,            \* the controller whose onStart is running (cliPc = "hook")
    cliHeartbeat,      \* Heartbeat connections of the client, in connection order
    ctlInit,           \* per key: state of the onInit call
    ctlStart,          \* per key: state of the onStart call
    ctlStartCount,     \* per key: number of onStart invocations
    ctlConstructed,    \* per key: number of constructor invocations
    cliTicks,          \* Heartbeat signals fired so far in the client
    cliHbCalls,        \* per key: number of onHeartbeat invocations
    callers,           \* the promise returned by each start() call: pending, resolved
    cliRes,            \* outcome of the last client API call
    controllerInstance,\* per key: the instance stored in controllers (0: none)
    cliGot,            \* the value returned by the last getController call
    \* definition registry (static sets of FunctionDefinition / EventDefinition)
    functionDefinitionNames,
    eventDefinitionNames,
    attributeDefinitions,  \* per name: number of AttributeDefinition objects constructed
    defRes,            \* outcome of the last definition constructor call
    \* function channels of one process (CrochetCore, server side)
    functionFolder,    \* per name: classes of the children of FunctionFolder with that name, oldest first
    functionParameterTypeGuards,   \* Map<name, TypeCheck[]>
    functionReturnTypeGuard,       \* Map<name, TypeCheck>
    onInvoke,          \* per name: the binding wrapped by BindableFunction.OnInvoke
    onServerInvoke,    \* per name: the binding wrapped by RemoteFunction.OnServerInvoke
    \* event channels of one process (CrochetCore, server side)
    eventFolder,       \* per name: classes of the children of EventFolder with that name, oldest first
    eventParameterTypeGuards,      \* Map<name, TypeCheck[]>
    eventListeners,    \* per name: number of connections to the signal of the fetched event
    chanRes,           \* outcome of the last channel call
    chanHandled,       \* the bindings run by the last invoke or fire, with what they received
    \* tag components (registerTagComponentForTag), one registration per tag
    tagged,            \* per tag: the instances CollectionService.GetTagged(tag) returns
    tagPc,             \* per tag: position of the registration call: none, scan, done
    scanTodo,          \* per tag: instances of the GetTagged snapshot not visited yet
    taggedAtCall,      \* per tag: the GetTagged snapshot taken by the registration call
    tagComponents,     \* per tag: Map<Instance, TagComponent>; a component is its
                       \* construction number, 0: no entry
    tagConstructed,    \* per tag and instance: number of components constructed
    tagRemovedCalls,   \* per tag and instance: the components whose onTagRemoved was called
    tagOps,            \* AddTag / RemoveTag calls made so far
    tagLast,           \* the last AddTag / RemoveTag call and whether it fired its signal
    \* the module that exports CrochetServer and CrochetClient (index.ts)
    environment,       \* what RunService reported when the module was loaded: unloaded,
                       \* server, client, run (Studio run mode: IsServer and IsClient)
    roleRes,           \* outcome of the last access to an erroring export
    \* remote function calls of the client process (CrochetClientImplementation)
    cliFunctionParameterTypeGuards,  \* the client's Map<name, TypeCheck[]>
    cliFunctionReturnTypeGuard,      \* the client's Map<name, TypeCheck>
    chanRemote,        \* the argument lists the last call sent with InvokeServer
    promise,           \* the promise the last promise variant returned: its state and value
    deferred           \* the Promise.defer callbacks that have not run yet, with their arguments

srvVars == <<starting, services, folderParented, startedMarkers, srvPc, srvTodo, srvCur,
             srvHeartbeat, svcInit, svcStart, svcStartCount, svcConstructed, srvRegOrder,
             srvInitOrder, srvMidRegister, srvTicks, srvHbCalls, srvRes>>
cliVars == <<cliConstructed, controllers, startPromise, cliSequences, cliPc, cliTodo, cliCur,
             cliHeartbeat, ctlInit, ctlStart, ctlStartCount, ctlConstructed, cliTicks,
             cliHbCalls, callers, cliRes>>
defVars == <<functionDefinitionNames, eventDefinitionNames, attributeDefinitions, defRes>>
srvLookupVars == <<serviceInstance, srvGot>>
cliLookupVars == <<controllerInstance, cliGot>>
fnVars == <<functionFolder, functionParameterTypeGuards, functionReturnTypeGuard, onInvoke,
            onServerInvoke>>
evVars == <<eventFolder, eventParameterTypeGuards, eventListeners>>
chanVars == <<fnVars, evVars, chanRes, chanHandled>>
tagVars == <<tagged, tagPc, scanTodo, taggedAtCall, tagComponents, tagConstructed,
             tagRemovedCalls, tagOps, tagLast>>
roleVars == <<environment, roleRes>>
remoteVars == <<cliFunctionParameterTypeGuards, cliFunctionReturnTypeGuard, chanRemote, promise,
                deferred>>
vars == <<srvVars, srvLookupVars, cliVars, cliLookupVars, defVars, chanVars, tagVars, roleVars,
          remoteVars>>
\* everything outside the server process, the client process, the definition registry
notSrv == <<cliVars, cliLookupVars, defVars, chanVars, tagVars, roleVars, remoteVars>>
notCli == <<srvVars, srvLookupVars, defVars, chanVars, tagVars, roleVars, remoteVars>>
notDef == <<srvVars, srvLookupVars, cliVars, cliLookupVars, chanVars, tagVars, roleVars, remoteVars>>
lifecycleVars == <<srvVars, srvLookupVars, cliVars, cliLookupVars, defVars>>
notFn == <<lifecycleVars, evVars, tagVars, roleVars, remoteVars>>
notEv == <<lifecycleVars, fnVars, tagVars, roleVars, remoteVars>>
notTag == <<lifecycleVars, chanVars, roleVars, remoteVars>>

\* ---- helpers ----
\* Map.set(key, value)
MapSet(m, k, v) == [x \in (DOMAIN m) \cup {k} |-> IF x = k THEN v ELSE m[x]]
\* number of entries of a sequence equal to k
Occurrences(s, k) == Cardinality({i \in 1..Len(s) : s[i] = k})
NoRes == [op |-> "none", err |-> "none"]
Res(op, err) == [op |-> op, err |-> err]

\* the state after construction, but for the tags the instances of the place carry
InitProcess ==
    /\ starting = FALSE
    /\ services = << >>
    /\ folderParented = FALSE
    /\ startedMarkers = 0
    /\ srvPc = "idle"
    /\ srvTodo = {}
    /\ srvCur = "none"
    /\ srvHeartbeat = << >>
    /\ svcInit = [k \in ServiceKeys |-> "none"]
    /\ svcStart = [k \in ServiceKeys |-> "none"]
    /\ svcStartCount = [k \in ServiceKeys |-> 0]
    /\ svcConstructed = [k \in ServiceKeys |-> 0]
    /\ srvRegOrder = << >>
    /\ srvInitOrder = << >>
    /\ srvMidRegister = FALSE
    /\ srvTicks = 0
    /\ srvHbCalls = [k \in ServiceKeys |-> 0]
    /\ srvRes = NoRes
    /\ serviceInstance = [k \in ServiceKeys |-> 0]
    /\ srvGot = 0
    /\ cliConstructed = FALSE
    /\ controllers = << >>
    /\ startPromise = "undefined"
    /\ cliSequences = 0
    /\ cliPc = "idle"
    /\ cliTodo = {}
    /\ cliCur = "none"
    /\ cliHeartbeat = << >>
    /\ ctlInit = [k \in ControllerKeys |-> "none"]
    /\ ctlStart = [k \in ControllerKeys |-> "none"]
    /\ ctlStartCount = [k \in ControllerKeys |-> 0]
    /\ ctlConstructed = [k \in ControllerKeys |-> 0]
    /\ cliTicks = 0
    /\ cliHbCalls = [k \in ControllerKeys |-> 0]
    /\ callers = << >>
    /\ cliRes = NoRes
    /\ controllerInstance = [k \in ControllerKeys |-> 0]
    /\ cliGot = 0
    /\ functionDefinitionNames = {}
    /\ eventDefinitionNames = {}
    /\ attributeDefinitions = [id \in Ids |-> 0]
    /\ defRes = NoRes
    /\ functionFolder = [n \in FunctionNames |-> << >>]
    /\ functionParameterTypeGuards = << >>
    /\ functionReturnTypeGuard = << >>
    /\ onInvoke = [n \in FunctionNames |-> "none"]
    /\ onServerInvoke = [n \in FunctionNames |-> "none"]
    /\ eventFolder = [n \in EventNames |-> << >>]
    /\ eventParameterTypeGuards = << >>
    /\ eventListeners = [n \in EventNames |-> 0]
    /\ chanRes = [op |-> "none", name |-> "none", params |-> << >>, err |-> "none",
                  value |-> NoValue]
    /\ chanHandled = << >>
    /\ tagPc = [t \in Tags |-> "none"]
    /\ scanTodo = [t \in Tags |-> {}]
    /\ taggedAtCall = [t \in Tags |-> {}]
    /\ tagComponents = [t \in Tags |-> [e \in Entities |-> 0]]
    /\ tagConstructed = [t \in Tags |-> [e \in Entities |-> 0]]
    /\ tagRemovedCalls = [t \in Tags |-> [e \in Entities |-> << >>]]
    /\ tagOps = 0
    /\ tagLast = [op |-> "none", tag |-> "none", instance |-> "none", fired |-> FALSE]
    /\ environment = "unloaded"
    /\ roleRes = [object |-> "none", op |-> "none", err |-> "none"]
    /\ cliFunctionParameterTypeGuards = << >>
    /\ cliFunctionReturnTypeGuard = << >>
    /\ chanRemote = << >>
    /\ promise = [state |-> "none", value |-> NoValue]
    /\ deferred = << >>

\* no instance is tagged
Init == InitProcess /\ tagged = [t \in Tags |-> {}]
\* the instances carry any tags when the process starts
TagInit == InitProcess /\ tagged \in [Tags -> SUBSET Entities]

(***************************************************************************)
(* Server process                                                          *)
(***************************************************************************)

\* The start() thread is between two hooks: no other server code can run.
SrvCanRun == srvPc # "loop"

\* registerService without the check of the starting flag
RegisterServiceAllowed_Always == TRUE

\* server.ts:48  assert(!this.starting, ...)
RegisterServiceAllowed == ~starting

\* registerService leaves onInit to a later phase
ServiceImplementsOnInit_Deferred(hooks) == FALSE

\* server.ts:55  if ('onInit' in service)
ServiceImplementsOnInit(hooks) == "onInit" \in hooks

\* registerService without the duplicate check
ServiceKeyFree_Always(k) == TRUE

\* server.ts:51  assert(!this.services.has(serviceKey), ...)
ServiceKeyFree(k) == k \notin DOMAIN services

\* server.ts:47-58  registerService up to the call of onInit
RegisterService(k, hooks) ==
    /\ SrvCanRun
    /\ IF ~RegisterServiceAllowed
       THEN /\ srvRes' = Res("registerService", "InvalidState")
            /\ UNCHANGED <<services, svcInit, svcConstructed, srvRegOrder, srvInitOrder,
                           serviceInstance>>
       ELSE IF ~ServiceKeyFree(k)
       THEN /\ srvRes' = Res("registerService", "DuplicateIdentifier")
            /\ UNCHANGED <<services, svcInit, svcConstructed, srvRegOrder, srvInitOrder,
                           serviceInstance>>
       ELSE /\ svcConstructed' = [svcConstructed EXCEPT ![k] = @ + 1]
            /\ services' = MapSet(services, k, hooks)
            /\ serviceInstance' = [serviceInstance EXCEPT ![k] = svcConstructed'[k]]
            /\ srvRegOrder' = Append(srvRegOrder, k)
            /\ IF ServiceImplementsOnInit(hooks)
               THEN /\ svcInit' = [svcInit EXCEPT ![k] = "running"]
                    /\ srvInitOrder' = Append(srvInitOrder, k)
               ELSE UNCHANGED <<svcInit, srvInitOrder>>
            /\ srvRes' = Res("registerService", "ok")
    /\ UNCHANGED <<starting, folderParented, startedMarkers, srvPc, srvTodo, srvCur,
                   srvHeartbeat, svcStart, svcStartCount, srvMidRegister, srvTicks, srvHbCalls>>
    /\ UNCHANGED <<srvGot, notSrv>>

\* getService returns whatever the map holds
ServiceRegistered_Unchecked(k) == TRUE

\* server.ts:71  assert(this.services.has(serviceKey), ...)
ServiceRegistered(k) == k \in DOMAIN services

\* server.ts:69-73  getService
GetService(k) ==
    /\ SrvCanRun
    /\ IF ServiceRegistered(k)
       THEN /\ srvRes' = Res("getService", "ok")
            /\ srvGot' = serviceInstance[k]
       ELSE /\ srvRes' = Res("getService", "NotFound")
            /\ UNCHANGED srvGot
    /\ UNCHANGED <<starting, services, folderParented, startedMarkers, srvPc, srvTodo, srvCur,
                   srvHeartbeat, svcInit, svcStart, svcStartCount, svcConstructed, srvRegOrder,
                   srvInitOrder, srvMidRegister, srvTicks, srvHbCalls, serviceInstance>>
    /\ UNCHANGED notSrv

\* server.ts:56  onInit() returns: registerService returns
InitHookReturn(k) ==
    /\ SrvCanRun
    /\ svcInit[k] = "running"
    /\ svcInit' = [svcInit EXCEPT ![k] = "done"]
    /\ UNCHANGED <<starting, services, folderParented, startedMarkers, srvPc, srvTodo, srvCur,
                   srvHeartbeat, svcStart, svcStartCount, svcConstructed, srvRegOrder,
                   srvInitOrder, srvMidRegister, srvTicks, srvHbCalls, srvRes>>
    /\ UNCHANGED <<srvLookupVars, notSrv>>

\* server.ts:56  onInit() throws: the error leaves registerService, the service stays stored
InitHookThrow(k) ==
    /\ SrvCanRun
    /\ svcInit[k] = "running"
    /\ svcInit' = [svcInit EXCEPT ![k] = "failed"]
    /\ UNCHANGED <<starting, services, folderParented, startedMarkers, srvPc, srvTodo, srvCur,
                   srvHeartbeat, svcStart, svcStartCount, svcConstructed, srvRegOrder,
                   srvInitOrder, srvMidRegister, srvTicks, srvHbCalls, srvRes>>
    /\ UNCHANGED <<srvLookupVars, notSrv>>

\* start() without the check of the starting flag
StartAllowed_Always == TRUE

\* server.ts:203  assert(!this.starting, ...)
StartAllowed == ~starting

\* server.ts:202-208  start() up to the forEach over services.values()
ServerStart ==
    /\ SrvCanRun
    /\ IF ~StartAllowed
       THEN /\ srvRes' = Res("start", "InvalidState")
            /\ UNCHANGED <<starting, folderParented, srvPc, srvTodo, srvMidRegister>>
       ELSE /\ starting' = TRUE
            /\ folderParented' = TRUE
            /\ srvTodo' = DOMAIN services
            /\ srvPc' = "loop"
            /\ srvMidRegister' = (\E k \in ServiceKeys : svcInit[k] = "running")
            /\ srvRes' = Res("start", "ok")
    /\ UNCHANGED <<services, startedMarkers, srvCur, srvHeartbeat, svcInit, svcStart,
                   svcStartCount, svcConstructed, srvRegOrder, srvInitOrder, srvTicks, srvHbCalls>>
    /\ UNCHANGED <<srvLookupVars, notSrv>>

\* server.ts:208-215  one iteration of the forEach, up to the call of onStart.
\* services.values() walks a Lua table: the order of the keys is not specified.
ServerLoopStep(k) ==
    /\ srvPc = "loop"
    /\ k \in srvTodo
    /\ srvTodo' = srvTodo \ {k}
    /\ IF "onStart" \in services[k]
       THEN /\ srvPc' = "hook"
            /\ srvCur' = k
            /\ svcStart' = [svcStart EXCEPT ![k] = "running"]
            /\ svcStartCount' = [svcStartCount EXCEPT ![k] = @ + 1]
            /\ UNCHANGED srvHeartbeat
       ELSE /\ srvHeartbeat' = IF "onHeartbeat" \in services[k]
                               THEN Append(srvHeartbeat, k) ELSE srvHeartbeat
            /\ UNCHANGED <<srvPc, srvCur, svcStart, svcStartCount>>
    /\ UNCHANGED <<starting, services, folderParented, startedMarkers, svcInit, svcConstructed,
                   srvRegOrder, srvInitOrder, srvMidRegister, srvTicks, srvHbCalls, srvRes>>
    /\ UNCHANGED <<srvLookupVars, notSrv>>

\* server.ts:210-214  onStart() returns; the Heartbeat connection of the same service follows
StartHookReturn ==
    /\ srvPc = "hook"
    /\ svcStart' = [svcStart EXCEPT ![srvCur] = "done"]
    /\ srvHeartbeat' = IF "onHeartbeat" \in services[srvCur]
                       THEN Append(srvHeartbeat, srvCur) ELSE srvHeartbeat
    /\ srvPc' = "loop"
    /\ srvCur' = "none"
    /\ UNCHANGED <<starting, services, folderParented, startedMarkers, srvTodo, svcInit,
                   svcStartCount, svcConstructed, srvRegOrder, srvInitOrder, srvMidRegister,
                   srvTicks, srvHbCalls, srvRes>>
    /\ UNCHANGED <<srvLookupVars, notSrv>>

\* a failing start hook that resets the starting flag
StartHookThrow_Rollback ==
    /\ srvPc = "hook"
    /\ svcStart' = [svcStart EXCEPT ![srvCur] = "failed"]
    /\ srvPc' = "failed"
    /\ srvCur' = "none"
    /\ starting' = FALSE
    /\ UNCHANGED <<services, folderParented, startedMarkers, srvTodo, srvHeartbeat,
                   svcInit, svcStartCount, svcConstructed, srvRegOrder, srvInitOrder,
                   srvMidRegister, srvTicks, srvHbCalls, srvRes>>
    /\ UNCHANGED <<srvLookupVars, notSrv>>

\* server.ts:210  onStart() throws: the error leaves forEach and start()
StartHookThrow ==
    /\ srvPc = "hook"
    /\ svcStart' = [svcStart EXCEPT ![srvCur] = "failed"]
    /\ srvPc' = "failed"
    /\ srvCur' = "none"
    /\ UNCHANGED <<starting, services, folderParented, startedMarkers, srvTodo, srvHeartbeat,
                   svcInit, svcStartCount, svcConstructed, srvRegOrder, srvInitOrder,
                   srvMidRegister, srvTicks, srvHbCalls, srvRes>>
    /\ UNCHANGED <<srvLookupVars, notSrv>>

\* the marker is published without waiting for the forEach
ServerLoopFinished_Early == TRUE

\* server.ts:215-217  the forEach has visited every service
ServerLoopFinished == srvTodo = {}

\* server.ts:217-220  the 'Started' BoolValue is created and parented; start() returns
ServerPublishStarted ==
    /\ srvPc = "loop"
    /\ ServerLoopFinished
    /\ startedMarkers' = startedMarkers + 1
    /\ srvPc' = "done"
    /\ UNCHANGED <<starting, services, folderParented, srvTodo, srvCur, srvHeartbeat, svcInit,
                   svcStart, svcStartCount, svcConstructed, srvRegOrder, srvInitOrder,
                   srvMidRegister, srvTicks, srvHbCalls, srvRes>>
    /\ UNCHANGED <<srvLookupVars, notSrv>>

\* server.ts:213  RunService.Heartbeat fires: every connection calls its onHeartbeat(step)
ServerHeartbeat ==
    /\ SrvCanRun
    /\ srvTicks < MaxTicks
    /\ srvTicks' = srvTicks + 1
    /\ srvHbCalls' = [k \in ServiceKeys |-> srvHbCalls[k] + Occurrences(srvHeartbeat, k)]
    /\ UNCHANGED <<starting, services, folderParented, startedMarkers, srvPc, srvTodo, srvCur,
                   srvHeartbeat, svcInit, svcStart, svcStartCount, svcConstructed, srvRegOrder,
                   srvInitOrder, srvMidRegister, srvRes>>
    /\ UNCHANGED <<srvLookupVars, notSrv>>

ServerNext ==
    \/ \E k \in ServiceKeys, h \in HookSets : RegisterService(k, h)
    \/ \E k \in ServiceKeys : InitHookReturn(k)
    \/ \E k \in ServiceKeys : InitHookThrow(k)
    \/ ServerStart
    \/ \E k \in ServiceKeys : ServerLoopStep(k)
    \/ StartHookReturn
    \/ StartHookThrow
    \/ ServerPublishStarted
    \/ ServerHeartbeat

(***************************************************************************)
(* Client process                                                          *)
(***************************************************************************)

\* The deferred start sequence is between two hooks: no other client code can run.
CliCanRun == cliPc # "loop"

\* the client does not wait for the Crochet folder
CrochetFolderFound_Always == TRUE

\* client.ts:37  script.Parent?.WaitForChild(CROCHET_FOLDER_NAME) returns: the folder the
\* server's constructor created is a child of script.Parent
CrochetFolderFound == folderParented

\* client.ts:34-40  the constructor returns once WaitForChild finds the Crochet folder
\* (its Functions and Events children exist since the server's constructor)
ClientConstruct ==
    /\ ~cliConstructed
    /\ CrochetFolderFound
    /\ cliConstructed' = TRUE
    /\ UNCHANGED <<controllers, startPromise, cliSequences, cliPc, cliTodo, cliCur,
                   cliHeartbeat, ctlInit, ctlStart, ctlStartCount, ctlConstructed, cliTicks,
                   cliHbCalls, callers, cliRes>>
    /\ UNCHANGED <<cliLookupVars, notCli>>

\* registerController refused only once the start sequence has resolved
RegisterControllerAllowed_UntilResolved == startPromise # "resolved"

\* client.ts:82-85  assert(this.startPromise === undefined, ...)
RegisterControllerAllowed == startPromise = "undefined"

\* registerController without the duplicate check
ControllerKeyFree_Always(k) == TRUE

\* client.ts:88  assert(!this.controllers.has(controllerKey), ...)
ControllerKeyFree(k) == k \notin DOMAIN controllers

\* client.ts:81-95  registerController up to the call of onInit
RegisterController(k, hooks) ==
    /\ cliConstructed
    /\ CliCanRun
    /\ IF ~RegisterControllerAllowed
       THEN /\ cliRes' = Res("registerController", "InvalidState")
            /\ UNCHANGED <<controllers, ctlInit, ctlConstructed, controllerInstance>>
       ELSE IF ~ControllerKeyFree(k)
       THEN /\ cliRes' = Res("registerController", "DuplicateIdentifier")
            /\ UNCHANGED <<controllers, ctlInit, ctlConstructed, controllerInstance>>
       ELSE /\ ctlConstructed' = [ctlConstructed EXCEPT ![k] = @ + 1]
            /\ controllers' = MapSet(controllers, k, hooks)
            /\ controllerInstance' = [controllerInstance EXCEPT ![k] = ctlConstructed'[k]]
            /\ ctlInit' = IF "onInit" \in hooks
                          THEN [ctlInit EXCEPT ![k] = "running"] ELSE ctlInit
            /\ cliRes' = Res("registerController", "ok")
    /\ UNCHANGED <<cliConstructed, startPromise, cliSequences, cliPc, cliTodo, cliCur,
                   cliHeartbeat, ctlStart, ctlStartCount, cliTicks, cliHbCalls, callers>>
    /\ UNCHANGED <<cliGot, notCli>>

\* getController returns whatever the map holds
ControllerRegistered_Unchecked(k) == TRUE

\* client.ts:119  assert(this.controllers.has(controllerKey), ...)
ControllerRegistered(k) == k \in DOMAIN controllers

\* client.ts:117-121  getController
GetController(k) ==
    /\ cliConstructed
    /\ CliCanRun
    /\ IF ControllerRegistered(k)
       THEN /\ cliRes' = Res("getController", "ok")
            /\ cliGot' = controllerInstance[k]
       ELSE /\ cliRes' = Res("getController", "NotFound")
            /\ UNCHANGED cliGot
    /\ UNCHANGED <<cliConstructed, controllers, startPromise, cliSequences, cliPc, cliTodo,
                   cliCur, cliHeartbeat, ctlInit, ctlStart, ctlStartCount, ctlConstructed,
                   cliTicks, cliHbCalls, callers, controllerInstance>>
    /\ UNCHANGED notCli

\* client.ts:93  onInit() returns: registerController returns
CtlInitHookReturn(k) ==
    /\ CliCanRun
    /\ ctlInit[k] = "running"
    /\ ctlInit' = [ctlInit EXCEPT ![k] = "done"]
    /\ UNCHANGED <<cliConstructed, controllers, startPromise, cliSequences, cliPc, cliTodo,
                   cliCur, cliHeartbeat, ctlStart, ctlStartCount, ctlConstructed, cliTicks,
                   cliHbCalls, callers, cliRes>>
    /\ UNCHANGED <<cliLookupVars, notCli>>

\* client.ts:93  onInit() throws: the error leaves registerController
CtlInitHookThrow(k) ==
    /\ CliCanRun
    /\ ctlInit[k] = "running"
    /\ ctlInit' = [ctlInit EXCEPT ![k] = "failed"]
    /\ UNCHANGED <<cliConstructed, controllers, startPromise, cliSequences, cliPc, cliTodo,
                   cliCur, cliHeartbeat, ctlStart, ctlStartCount, ctlConstructed, cliTicks,
                   cliHbCalls, callers, cliRes>>
    /\ UNCHANGED <<cliLookupVars, notCli>>

\* start() creates a new sequence on every call
StartPromiseUnset_Always == TRUE

\* client.ts:49  if (this.startPromise === undefined)
StartPromiseUnset == startPromise = "undefined"

\* client.ts:48-51, 66-69  start(): the first call creates startPromise and defers the
\* sequence; every call returns a promise that follows startPromise
ClientStart ==
    /\ cliConstructed
    /\ CliCanRun
    /\ Len(callers) < MaxStartCalls
    /\ IF StartPromiseUnset
       THEN /\ startPromise' = "pending"
            /\ cliSequences' = cliSequences + 1
            /\ cliPc' = "waiting"
            /\ callers' = Append(callers, "pending")
       ELSE /\ callers' = Append(callers, startPromise)
            /\ UNCHANGED <<startPromise, cliSequences, cliPc>>
    /\ cliRes' = Res("start", "ok")
    /\ UNCHANGED <<cliConstructed, controllers, cliTodo, cliCur, cliHeartbeat, ctlInit,
                   ctlStart, ctlStartCount, ctlConstructed, cliTicks, cliHbCalls>>
    /\ UNCHANGED <<cliLookupVars, notCli>>

\* the sequence does not wait for the 'Started' marker
StartedObserved_NoWait == TRUE

\* client.ts:52  script.Parent.WaitForChild('Started') can return
StartedObserved == startedMarkers > 0

\* client.ts:51-53  the deferred callback runs, WaitForChild('Started') returns and
\* Object.values(this.controllers) is taken
ClientWaitStarted ==
    /\ cliPc = "waiting"
    /\ StartedObserved
    /\ cliTodo' = DOMAIN controllers
    /\ cliPc' = "loop"
    /\ UNCHANGED <<cliConstructed, controllers, startPromise, cliSequences, cliCur,
                   cliHeartbeat, ctlInit, ctlStart, ctlStartCount, ctlConstructed, cliTicks,
                   cliHbCalls, callers, cliRes>>
    /\ UNCHANGED <<cliLookupVars, notCli>>

\* client.ts:53-62  one iteration of the forEach, up to the call of onStart.
\* Object.values walks a Lua table: the order of the keys is not specified.
ClientLoopStep(k) ==
    /\ cliPc = "loop"
    /\ k \in cliTodo
    /\ cliTodo' = cliTodo \ {k}
    /\ IF "onStart" \in controllers[k]
       THEN /\ cliPc' = "hook"
            /\ cliCur' = k
            /\ ctlStart' = [ctlStart EXCEPT ![k] = "running"]
            /\ ctlStartCount' = [ctlStartCount EXCEPT ![k] = @ + 1]
            /\ UNCHANGED cliHeartbeat
       ELSE /\ cliHeartbeat' = IF "onHeartbeat" \in controllers[k]
                               THEN Append(cliHeartbeat, k) ELSE cliHeartbeat
            /\ UNCHANGED <<cliPc, cliCur, ctlStart, ctlStartCount>>
    /\ UNCHANGED <<cliConstructed, controllers, startPromise, cliSequences, ctlInit,
                   ctlConstructed, cliTicks, cliHbCalls, callers, cliRes>>
    /\ UNCHANGED <<cliLookupVars, notCli>>

\* client.ts:55-61  onStart() returns; the Heartbeat connection of the same controller follows
CtlStartHookReturn ==
    /\ cliPc = "hook"
    /\ ctlStart' = [ctlStart EXCEPT ![cliCur] = "done"]
    /\ cliHeartbeat' = IF "onHeartbeat" \in controllers[cliCur]
                       THEN Append(cliHeartbeat, cliCur) ELSE cliHeartbeat
    /\ cliPc' = "loop"
    /\ cliCur' = "none"
    /\ UNCHANGED <<cliConstructed, controllers, startPromise, cliSequences, cliTodo, ctlInit,
                   ctlStartCount, ctlConstructed, cliTicks, cliHbCalls, callers, cliRes>>
    /\ UNCHANGED <<cliLookupVars, notCli>>

\* client.ts:55  onStart() throws inside the deferred callback: resolve() is never reached
CtlStartHookThrow ==
    /\ cliPc = "hook"
    /\ ctlStart' = [ctlStart EXCEPT ![cliCur] = "failed"]
    /\ cliPc' = "failed"
    /\ cliCur' = "none"
    /\ UNCHANGED <<cliConstructed, controllers, startPromise, cliSequences, cliTodo,
                   cliHeartbeat, ctlInit, ctlStartCount, ctlConstructed, cliTicks, cliHbCalls,
                   callers, cliRes>>
    /\ UNCHANGED <<cliLookupVars, notCli>>

\* only the promise of the first start() call follows startPromise
SettleFollowers_FirstOnly(cs) == [i \in DOMAIN cs |-> IF i = 1 THEN "resolved" ELSE cs[i]]

\* client.ts:64, 68  resolve(): every promise that follows startPromise resolves
SettleFollowers(cs) == [i \in DOMAIN cs |-> "resolved"]

\* client.ts:62-64  the forEach has visited every controller: resolve()
ClientResolve ==
    /\ cliPc = "loop"
    /\ cliTodo = {}
    /\ startPromise' = "resolved"
    /\ callers' = SettleFollowers(callers)
    /\ cliPc' = "done"
    /\ UNCHANGED <<cliConstructed, controllers, cliSequences, cliTodo, cliCur, cliHeartbeat,
                   ctlInit, ctlStart, ctlStartCount, ctlConstructed, cliTicks, cliHbCalls,
                   cliRes>>
    /\ UNCHANGED <<cliLookupVars, notCli>>

\* client.ts:58  RunService.Heartbeat fires: every connection calls its onHeartbeat(step)
ClientHeartbeat ==
    /\ CliCanRun
    /\ cliTicks < MaxTicks
    /\ cliTicks' = cliTicks + 1
    /\ cliHbCalls' = [k \in ControllerKeys |-> cliHbCalls[k] + Occurrences(cliHeartbeat, k)]
    /\ UNCHANGED <<cliConstructed, controllers, startPromise, cliSequences, cliPc, cliTodo,
                   cliCur, cliHeartbeat, ctlInit, ctlStart, ctlStartCount, ctlConstructed,
                   callers, cliRes>>
    /\ UNCHANGED <<cliLookupVars, notCli>>

ClientNext ==
    \/ ClientConstruct
    \/ \E k \in ControllerKeys, h \in HookSets : RegisterController(k, h)
    \/ \E k \in ControllerKeys : CtlInitHookReturn(k)
    \/ \E k \in ControllerKeys : CtlInitHookThrow(k)
    \/ ClientStart
    \/ ClientWaitStarted
    \/ \E k \in ControllerKeys : ClientLoopStep(k)
    \/ CtlStartHookReturn
    \/ CtlStartHookThrow
    \/ ClientResolve
    \/ ClientHeartbeat

\* The server as the client's peer: services that only have a start hook.
PeerHookSets == {{"onStart"}}

PeerNext ==
    \/ \E k \in ServiceKeys, h \in PeerHookSets : RegisterService(k, h)
    \/ ServerStart
    \/ \E k \in ServiceKeys : ServerLoopStep(k)
    \/ StartHookReturn
    \/ StartHookThrow
    \/ ServerPublishStarted

(***************************************************************************)
(* Definition registry                                                     *)
(***************************************************************************)

\* the constructor without the uniqueness assert
FunctionIdentifierFree_Always(id) == TRUE

\* one set of names shared by Function and Event definitions
FunctionIdentifierFree_SharedNamespace(id) ==
    id \notin functionDefinitionNames \cup eventDefinitionNames

\* core.ts:56-59  assert(!FunctionDefinition.functionDefinitionNames.has(functionIdentifier), ...)
FunctionIdentifierFree(id) == id \notin functionDefinitionNames

\* core.ts:51-61  new FunctionDefinition(functionIdentifier)
NewFunctionDefinition(id) ==
    /\ IF FunctionIdentifierFree(id)
       THEN /\ functionDefinitionNames' = functionDefinitionNames \cup {id}
            /\ defRes' = Res("FunctionDefinition", "ok")
       ELSE /\ defRes' = Res("FunctionDefinition", "DuplicateIdentifier")
            /\ UNCHANGED functionDefinitionNames
    /\ UNCHANGED <<eventDefinitionNames, attributeDefinitions>>
    /\ UNCHANGED notDef

\* core.ts:79-82  assert(!EventDefinition.eventDefinitionNames.has(eventIdentifier), ...)
EventIdentifierFree(id) == id \notin eventDefinitionNames

\* core.ts:75-84  new EventDefinition(eventIdentifier)
NewEventDefinition(id) ==
    /\ IF EventIdentifierFree(id)
       THEN /\ eventDefinitionNames' = eventDefinitionNames \cup {id}
            /\ defRes' = Res("EventDefinition", "ok")
       ELSE /\ defRes' = Res("EventDefinition", "DuplicateIdentifier")
            /\ UNCHANGED eventDefinitionNames
    /\ UNCHANGED <<functionDefinitionNames, attributeDefinitions>>
    /\ UNCHANGED notDef

\* core.ts:95-97  new AttributeDefinition(name, typeCheck): the constructor only stores
\* its parameters
NewAttributeDefinition(id) ==
    /\ attributeDefinitions[id] < MaxAttributeDefinitions
    /\ attributeDefinitions' = [attributeDefinitions EXCEPT ![id] = @ + 1]
    /\ defRes' = Res("AttributeDefinition", "ok")
    /\ UNCHANGED <<functionDefinitionNames, eventDefinitionNames>>
    /\ UNCHANGED notDef

DefNext ==
    \/ \E id \in Ids : NewFunctionDefinition(id)
    \/ \E id \in Ids : NewEventDefinition(id)
    \/ \E id \in Ids : NewAttributeDefinition(id)

\* Definitions declared in one process.
DefSpec == Init /\ [][DefNext]_vars

\* The hook sets used where registration and lookup are examined.
LookupHookSets == {{}, {"onStart"}}

\* Registration and lookup in both processes, through the whole lifecycle.
LookupNext ==
    \/ \E k \in ServiceKeys, h \in LookupHookSets : RegisterService(k, h)
    \/ \E k \in ServiceKeys : GetService(k)
    \/ ServerStart
    \/ \E k \in ServiceKeys : ServerLoopStep(k)
    \/ StartHookReturn
    \/ StartHookThrow
    \/ ServerPublishStarted
    \/ ClientConstruct
    \/ \E k \in ControllerKeys, h \in LookupHookSets : RegisterController(k, h)
    \/ \E k \in ControllerKeys : GetController(k)
    \/ ClientStart
    \/ ClientWaitStarted
    \/ \E k \in ControllerKeys : ClientLoopStep(k)
    \/ CtlStartHookReturn
    \/ CtlStartHookThrow
    \/ ClientResolve

LookupSpec == Init /\ [][LookupNext]_vars

\* Server process alone.
SrvSpec == Init /\ [][ServerNext]_vars

\* Client process with its server peer.
Next == PeerNext \/ ClientNext
Spec == Init /\ [][Next]_vars

\* Client process with its server peer, under the scheduling of the engine: a
\* deferred callback runs, WaitForChild returns once the child exists, a running
\* thread continues, and a start hook ends (by returning or throwing).
LiveSpec ==
    /\ Init
    /\ [][Next]_vars
    /\ WF_vars(ClientWaitStarted)
    /\ WF_vars(\E k \in ControllerKeys : ClientLoopStep(k))
    /\ WF_vars(CtlStartHookReturn \/ CtlStartHookThrow)
    /\ WF_vars(ClientResolve)

(***************************************************************************)
(* Properties                                                              *)
(***************************************************************************)

\* start() has been entered on the server
ServerStartEntered == srvPc # "idle"
\* every registered service with a start hook has completed it
AllServicesStarted ==
    \A k \in DOMAIN services : "onStart" \in services[k] => svcStart[k] = "done"
\* every registered controller with a start hook has completed it
AllControllersStarted ==
    \A k \in DOMAIN controllers : "onStart" \in controllers[k] => ctlStart[k] = "done"

\* C1: a registerService call made once start() has been entered (also from inside a
\* start hook) fails with InvalidState, constructs nothing, runs no init hook and leaves
\* the service map unchanged; before start() a call with a new key succeeds and stores it.
C1_RegisterServiceGated ==
    [][\A k \in ServiceKeys, h \in HookSets :
          RegisterService(k, h) =>
              /\ ServerStartEntered =>
                    /\ srvRes' = Res("registerService", "InvalidState")
                    /\ services' = services
                    /\ svcConstructed' = svcConstructed
                    /\ svcInit' = svcInit
                    /\ srvInitOrder' = srvInitOrder
              /\ (~ServerStartEntered /\ k \notin DOMAIN services) =>
                    /\ srvRes' = Res("registerService", "ok")
                    /\ k \in DOMAIN services'
                    /\ svcConstructed'[k] = 1]_vars

\* C1 witness: registerService was refused while a start hook was running, with a
\* service registered before start()
C1_Witness ==
    /\ srvPc = "hook"
    /\ srvRes = Res("registerService", "InvalidState")
    /\ Len(srvRegOrder) = 1

\* C2: a second start() call, during the hooks of the first or after it, fails with
\* InvalidState and changes nothing; no start hook runs twice, no tick hook is connected
\* twice and at most one readiness marker is published.
C2_SecondStartRefused ==
    /\ [](\A k \in ServiceKeys :
            /\ svcStartCount[k] <= 1
            /\ Occurrences(srvHeartbeat, k) <= 1)
    /\ [](startedMarkers <= 1)
    /\ [][(ServerStart /\ ServerStartEntered) =>
            /\ srvRes' = Res("start", "InvalidState")
            /\ UNCHANGED <<starting, services, folderParented, startedMarkers, srvPc, srvTodo,
                           srvCur, srvHeartbeat, svcInit, svcStart, svcStartCount,
                           svcConstructed, srvTicks, srvHbCalls>>]_vars

\* C2 witness: start() was refused while the onStart of a service with a tick hook was running
C2_Witness ==
    /\ srvRes = Res("start", "InvalidState")
    /\ srvPc = "hook"
    /\ "onHeartbeat" \in services[srvCur]

\* C3: when start() is called after the registerService calls have returned, no start
\* hook begins before the init hook of every registered service has ended, and the init
\* hooks were invoked in registration order.
C3_InitBeforeStart ==
    /\ ~srvMidRegister =>
          \A k \in ServiceKeys : svcStartCount[k] > 0 =>
              \A j \in DOMAIN services :
                  "onInit" \in services[j] => svcInit[j] \in {"done", "failed"}
    /\ srvInitOrder = SelectSeq(srvRegOrder, LAMBDA j : "onInit" \in services[j])

\* C3 witness: a start hook runs after two services with init hooks were registered
C3_Witness ==
    /\ ~srvMidRegister
    /\ srvPc = "hook"
    /\ Len(srvInitOrder) = 2

\* C4: no tick hook is invoked before every start hook of its process has completed.
C4_NoTickBeforeAllStarted ==
    [][/\ srvHbCalls' # srvHbCalls => AllServicesStarted
       /\ cliHbCalls' # cliHbCalls => AllControllersStarted]_vars

\* C4, server half
C4_ServerNoTickBeforeAllStarted ==
    [][srvHbCalls' # srvHbCalls => AllServicesStarted]_vars

\* C5: the folder is parented before any start hook begins, and whenever the 'Started'
\* marker exists every registered service with a start hook has completed it.
C5_MarkerAfterStartHooks ==
    /\ (\E k \in ServiceKeys : svcStartCount[k] > 0) => folderParented
    /\ startedMarkers > 0 => AllServicesStarted

\* C5 witness: the marker exists and two services have a start hook
C5_Witness ==
    /\ startedMarkers > 0
    /\ Cardinality({k \in DOMAIN services : "onStart" \in services[k]}) = 2

\* C6: whatever the number and timing of start() calls, at most one sequence is created,
\* no controller start hook runs twice, no tick hook is connected twice, and once the
\* sequence is done each start hook ran once and each tick hook is connected once.
C6_ClientSequenceOnce ==
    /\ cliSequences <= 1
    /\ \A k \in ControllerKeys :
          /\ ctlStartCount[k] <= 1
          /\ Occurrences(cliHeartbeat, k) <= 1
    /\ cliPc = "done" =>
          \A k \in DOMAIN controllers :
              /\ "onStart" \in controllers[k] => ctlStartCount[k] = 1
              /\ "onHeartbeat" \in controllers[k] => Occurrences(cliHeartbeat, k) = 1

\* C6 witness: three start() calls, the sequence done, a controller with start and tick hook
C6_Witness ==
    /\ cliPc = "done"
    /\ Len(callers) = 3
    /\ \E k \in DOMAIN controllers : {"onStart", "onHeartbeat"} \subseteq controllers[k]

\* C7: a controller start hook has run or a start() promise has resolved only if the
\* 'Started' marker exists and every service start hook has completed.
C7_ClientAfterServer ==
    ((\E k \in ControllerKeys : ctlStartCount[k] > 0) \/ (\E i \in DOMAIN callers : callers[i] = "resolved"))
        => (startedMarkers > 0 /\ AllServicesStarted)

\* C7 witness: a controller start hook runs after the start hooks of two services
C7_Witness ==
    /\ cliPc = "hook"
    /\ Cardinality(DOMAIN services) = 2

\* C8: once the marker is published, every start() call that was made is eventually
\* resolved unless a controller start hook failed, and a resolve() settles every
\* pending caller at once.
C8_StartEventuallyResolves ==
    /\ \A i \in 1..MaxStartCalls :
          (Len(callers) >= i /\ startedMarkers > 0)
              ~> ((Len(callers) >= i /\ callers[i] = "resolved") \/ cliPc = "failed")
    /\ [][(startPromise = "pending" /\ startPromise' = "resolved") =>
             \A i \in DOMAIN callers' : callers'[i] = "resolved"]_vars

\* C8 witness: three start() calls are resolved after a controller start hook completed
C8_Witness ==
    /\ Len(callers) = 3
    /\ \A i \in DOMAIN callers : callers[i] = "resolved"
    /\ \E k \in DOMAIN controllers : ctlStart[k] = "done"

\* C9: registerController after the first start() call fails with InvalidState, also
\* while the sequence waits for the marker, constructs nothing, runs no init hook and
\* leaves the controller map unchanged.
C9_RegisterControllerGated ==
    [][\A k \in ControllerKeys, h \in HookSets :
          (RegisterController(k, h) /\ Len(callers) > 0) =>
              /\ cliRes' = Res("registerController", "InvalidState")
              /\ controllers' = controllers
              /\ ctlConstructed' = ctlConstructed
              /\ ctlInit' = ctlInit]_vars

\* C9 witness: registerController was refused while the sequence waits for the marker
C9_Witness ==
    /\ cliRes = Res("registerController", "InvalidState")
    /\ cliPc = "waiting"
    /\ startedMarkers = 0

\* C10: a Function (Event) definition with an identifier already declared for that kind
\* fails with DuplicateIdentifier and adds nothing; the first declaration succeeds and
\* adds the identifier; the declared sets never shrink.
C10_DuplicateDefinitionFails ==
    [][/\ \A id \in Ids : NewFunctionDefinition(id) =>
              IF id \in functionDefinitionNames
              THEN /\ defRes' = Res("FunctionDefinition", "DuplicateIdentifier")
                   /\ functionDefinitionNames' = functionDefinitionNames
              ELSE /\ defRes' = Res("FunctionDefinition", "ok")
                   /\ functionDefinitionNames' = functionDefinitionNames \cup {id}
       /\ \A id \in Ids : NewEventDefinition(id) =>
              IF id \in eventDefinitionNames
              THEN /\ defRes' = Res("EventDefinition", "DuplicateIdentifier")
                   /\ eventDefinitionNames' = eventDefinitionNames
              ELSE /\ defRes' = Res("EventDefinition", "ok")
                   /\ eventDefinitionNames' = eventDefinitionNames \cup {id}
       /\ functionDefinitionNames \subseteq functionDefinitionNames'
       /\ eventDefinitionNames \subseteq eventDefinitionNames']_vars

\* C10 witness: a duplicate Function declaration was refused after Event declarations
C10_Witness ==
    /\ defRes = Res("FunctionDefinition", "DuplicateIdentifier")
    /\ eventDefinitionNames # {}

\* C11: an identifier declared for one kind does not count for the other: a Function
\* (Event) declaration of an identifier not yet declared as Function (Event) succeeds
\* whether or not the other kind has it, and leaves the other kind's set unchanged.
C11_NamespacesPerKind ==
    [][\A id \in Ids :
          /\ NewFunctionDefinition(id) =>
                /\ eventDefinitionNames' = eventDefinitionNames
                /\ id \notin functionDefinitionNames =>
                      (defRes' = Res("FunctionDefinition", "ok") /\ id \in functionDefinitionNames')
          /\ NewEventDefinition(id) =>
                /\ functionDefinitionNames' = functionDefinitionNames
                /\ id \notin eventDefinitionNames =>
                      (defRes' = Res("EventDefinition", "ok") /\ id \in eventDefinitionNames')]_vars

\* C11 witness: an identifier is declared for both kinds, the Function declaration last
C11_Witness ==
    /\ defRes = Res("FunctionDefinition", "ok")
    /\ functionDefinitionNames \cap eventDefinitionNames # {}
    /\ Cardinality(functionDefinitionNames) = 1

\* C12: an Attribute definition whose name an earlier Attribute definition uses fails
\* with DuplicateIdentifier.
C12_DuplicateAttributeFails ==
    [][\A id \in Ids :
          (NewAttributeDefinition(id) /\ attributeDefinitions[id] > 0) =>
              (defRes' = Res("AttributeDefinition", "DuplicateIdentifier")
               /\ attributeDefinitions' = attributeDefinitions)]_vars

(***************************************************************************)
(* Function channels (CrochetCore and the remote variants of the server)   *)
(***************************************************************************)

\* outcome of a call: the operation, the channel name, the arguments passed to an invoke,
\* the failure (or ok) and the value returned
FnResult(op, name, params, err, value) ==
    [op |-> op, name |-> name, params |-> params, err |-> err, value |-> value]

\* FunctionFolder.FindFirstChild(name): the oldest child of that name, if any
FunctionFound(name) == functionFolder[name] # << >>
\* fetchFunctionWithDefinition: assert(func, 'Could not find function ...')
FetchFunctionWithDefinition_Unchecked(def) == TRUE
FetchFunctionWithDefinition(def) == FunctionFound(def.functionIdentifier)
\* the class of the instance fetchFunctionWithDefinition returns
FetchedFunctionClass(def) ==
    IF FunctionFound(def.functionIdentifier) THEN Head(functionFolder[def.functionIdentifier])
    ELSE "nil"

\* typeGuards.size() !== params.size()
ParameterCountMatches_AtLeast(typeGuards, params) == Len(typeGuards) <= Len(params)
ParameterCountMatches(typeGuards, params) == Len(typeGuards) = Len(params)
\* the guard loop; params[i] beyond the end of params is nil, which no guard accepts
ParametersAccepted_Unchecked(typeGuards, params) == TRUE
ParametersAccepted(typeGuards, params) ==
    \A i \in 1..Len(typeGuards) :
        Guard(typeGuards[i], IF i <= Len(params) THEN params[i] ELSE NoValue)

VerifyFunctionParametersWithDefinition(params, def) ==
    LET name == def.functionIdentifier IN
    IF name \in DOMAIN functionParameterTypeGuards
    THEN /\ ParameterCountMatches(functionParameterTypeGuards[name], params)
         /\ ParametersAccepted(functionParameterTypeGuards[name], params)
    ELSE TRUE

\* typeGuard(returnResult)
ReturnAccepted_Unchecked(typeGuard, returnResult) == TRUE
ReturnAccepted(typeGuard, returnResult) == Guard(typeGuard, returnResult)

VerifyFunctionReturnTypeWithDefinition(returnResult, def) ==
    LET name == def.functionIdentifier IN
    IF name \in DOMAIN functionReturnTypeGuard
    THEN ReturnAccepted(functionReturnTypeGuard[name], returnResult)
    ELSE TRUE

\* if (functionDefinition.parameterTypeguards) / if (eventDefinition.parameterTypeguards)
CarriesParameterTypeguards_Always(def) == TRUE
CarriesParameterTypeguards(def) == def.hasParameterTypeguards

\* the guard maps after a register call has stored the guards the definition carries
StoreFunctionGuards(def) ==
    /\ functionParameterTypeGuards' =
         IF CarriesParameterTypeguards(def)
         THEN MapSet(functionParameterTypeGuards, def.functionIdentifier, def.parameterTypeguards)
         ELSE functionParameterTypeGuards
    /\ functionReturnTypeGuard' =
         IF def.hasReturnTypeGuard
         THEN MapSet(functionReturnTypeGuard, def.functionIdentifier, def.returnTypeGuard)
         ELSE functionReturnTypeGuard

\* assert(this.FunctionFolder?.FindFirstChild(name) === undefined, 'Duplicate function ...')
FunctionNameFree_Always(name) == TRUE
FunctionNameFree_Never(name) == FALSE
FunctionNameFree(name) == ~FunctionFound(name)

RegisterBindableFunction(def) ==
    LET name == def.functionIdentifier IN
    /\ IF ~FunctionNameFree(name)
       THEN /\ chanRes' = FnResult("registerBindableFunction", name, << >>, "DuplicateIdentifier", NoValue)
            /\ UNCHANGED <<functionFolder, functionParameterTypeGuards, functionReturnTypeGuard>>
       ELSE /\ functionFolder' = [functionFolder EXCEPT ![name] = Append(@, "BindableFunction")]
            /\ StoreFunctionGuards(def)
            /\ chanRes' = FnResult("registerBindableFunction", name, << >>, "ok", NoValue)
    /\ chanHandled' = << >>
    /\ UNCHANGED <<onInvoke, onServerInvoke>>
    /\ UNCHANGED notFn

RegisterRemoteFunction(def) ==
    LET name == def.functionIdentifier IN
    /\ Len(functionFolder[name]) < MaxHandles
    /\ functionFolder' = [functionFolder EXCEPT ![name] = Append(@, "RemoteFunction")]
    /\ StoreFunctionGuards(def)
    /\ chanRes' = FnResult("registerRemoteFunction", name, << >>, "ok", NoValue)
    /\ chanHandled' = << >>
    /\ UNCHANGED <<onInvoke, onServerInvoke>>
    /\ UNCHANGED notFn

\* bindableFunction.OnInvoke = wrapper; assigning OnInvoke of a RemoteFunction is an
\* engine error
\* bindBindableFunction that leaves an OnInvoke that is already assigned
BindBindableFunction_KeepsFirst(def, functionBinding) ==
    LET name == def.functionIdentifier IN
    /\ IF ~FetchFunctionWithDefinition(def)
       THEN /\ chanRes' = FnResult("bindBindableFunction", name, << >>, "NotFound", NoValue)
            /\ UNCHANGED onInvoke
       ELSE IF FetchedFunctionClass(def) # "BindableFunction"
       THEN /\ chanRes' = FnResult("bindBindableFunction", name, << >>, "EngineError", NoValue)
            /\ UNCHANGED onInvoke
       ELSE /\ onInvoke' = IF onInvoke[name] = "none"
                           THEN [onInvoke EXCEPT ![name] = functionBinding] ELSE onInvoke
            /\ chanRes' = FnResult("bindBindableFunction", name, << >>, "ok", NoValue)
    /\ chanHandled' = << >>
    /\ UNCHANGED <<functionFolder, functionParameterTypeGuards, functionReturnTypeGuard,
                   onServerInvoke>>
    /\ UNCHANGED notFn

BindBindableFunction(def, functionBinding) ==
    LET name == def.functionIdentifier IN
    /\ IF ~FetchFunctionWithDefinition(def)
       THEN /\ chanRes' = FnResult("bindBindableFunction", name, << >>, "NotFound", NoValue)
            /\ UNCHANGED onInvoke
       ELSE IF FetchedFunctionClass(def) # "BindableFunction"
       THEN /\ chanRes' = FnResult("bindBindableFunction", name, << >>, "EngineError", NoValue)
            /\ UNCHANGED onInvoke
       ELSE /\ onInvoke' = [onInvoke EXCEPT ![name] = functionBinding]
            /\ chanRes' = FnResult("bindBindableFunction", name, << >>, "ok", NoValue)
    /\ chanHandled' = << >>
    /\ UNCHANGED <<functionFolder, functionParameterTypeGuards, functionReturnTypeGuard,
                   onServerInvoke>>
    /\ UNCHANGED notFn

BindServerSideRemoteFunction(def, functionBinding) ==
    LET name == def.functionIdentifier IN
    /\ IF ~FetchFunctionWithDefinition(def)
       THEN /\ chanRes' = FnResult("bindServerSideRemoteFunction", name, << >>, "NotFound", NoValue)
            /\ UNCHANGED onServerInvoke
       ELSE IF FetchedFunctionClass(def) # "RemoteFunction"
       THEN /\ chanRes' = FnResult("bindServerSideRemoteFunction", name, << >>, "EngineError", NoValue)
            /\ UNCHANGED onServerInvoke
       ELSE /\ onServerInvoke' = [onServerInvoke EXCEPT ![name] = functionBinding]
            /\ chanRes' = FnResult("bindServerSideRemoteFunction", name, << >>, "ok", NoValue)
    /\ chanHandled' = << >>
    /\ UNCHANGED <<functionFolder, functionParameterTypeGuards, functionReturnTypeGuard,
                   onInvoke>>
    /\ UNCHANGED notFn

\* the getters that only fetch the channel and return a closure over it
FunctionGetters == {"getBindableFunction", "getClientSideRemoteFunction",
                    "getClientSideRemotePromiseFunction"}
GetFunction(getter, def) ==
    /\ chanRes' = FnResult(getter, def.functionIdentifier, << >>,
                         IF FetchFunctionWithDefinition(def) THEN "ok" ELSE "NotFound", NoValue)
    /\ chanHandled' = << >>
    /\ UNCHANGED <<functionFolder, functionParameterTypeGuards, functionReturnTypeGuard,
                   onInvoke, onServerInvoke>>
    /\ UNCHANGED notFn

\* The OnInvoke wrapper installed by bindBindableFunction, run with params; result is what
\* the binding returns.  Gives the outcome of the wrapper and the bindings it ran.
OnInvokeWrapper(def, params, result) ==
    LET name == def.functionIdentifier IN
    IF ~VerifyFunctionParametersWithDefinition(params, def)
    THEN [err |-> "ParameterMismatch", value |-> NoValue, handled |-> << >>]
    ELSE LET handled == <<[binding |-> onInvoke[name], params |-> params, result |-> result]>> IN
         IF ~VerifyFunctionReturnTypeWithDefinition(result, def)
         THEN [err |-> "ReturnTypeMismatch", value |-> NoValue, handled |-> handled]
         ELSE [err |-> "ok", value |-> result, handled |-> handled]

\* getBindableFunction(def)(...params): fetch, then the returned closure.  An Invoke of a
\* BindableFunction without OnInvoke yields until one is assigned: the call does not return.
InvokeBindableFunction(def, params, result) ==
    LET name == def.functionIdentifier
        inner == OnInvokeWrapper(def, params, result)
        out == IF ~FetchFunctionWithDefinition(def)
               THEN [err |-> "NotFound", value |-> NoValue, handled |-> << >>]
               ELSE IF ~VerifyFunctionParametersWithDefinition(params, def)
               THEN [err |-> "ParameterMismatch", value |-> NoValue, handled |-> << >>]
               ELSE IF FetchedFunctionClass(def) # "BindableFunction"
               THEN [err |-> "EngineError", value |-> NoValue, handled |-> << >>]
               ELSE IF onInvoke[name] = "none"
               THEN [err |-> "Yields", value |-> NoValue, handled |-> << >>]
               ELSE IF inner.err # "ok"
               THEN inner
               ELSE IF ~VerifyFunctionReturnTypeWithDefinition(inner.value, def)
               THEN [err |-> "ReturnTypeMismatch", value |-> NoValue, handled |-> inner.handled]
               ELSE inner
    IN
    /\ chanRes' = FnResult("invoke", name, params, out.err, out.value)
    /\ chanHandled' = out.handled
    /\ UNCHANGED <<functionFolder, functionParameterTypeGuards, functionReturnTypeGuard,
                   onInvoke, onServerInvoke>>
    /\ UNCHANGED notFn

FnNext ==
    \/ \E def \in FunctionDefinitions : RegisterBindableFunction(def)
    \/ \E def \in FunctionDefinitions : RegisterRemoteFunction(def)
    \/ \E def \in FunctionDefinitions, b \in Bindings : BindBindableFunction(def, b)
    \/ \E def \in FunctionDefinitions, b \in Bindings : BindServerSideRemoteFunction(def, b)
    \/ \E def \in FunctionDefinitions, g \in FunctionGetters : GetFunction(g, def)
    \/ \E def \in FunctionDefinitions, params \in ArgLists, result \in ReturnValues :
          InvokeBindableFunction(def, params, result)

FnSpec == Init /\ [][FnNext]_vars

(***************************************************************************)
(* Event channels (CrochetCore and the remote variants of the server)      *)
(***************************************************************************)

EvResult(op, name, params, err) == FnResult(op, name, params, err, NoValue)

\* EventFolder.FindFirstChild(name): the oldest child of that name, if any
EventFound(name) == eventFolder[name] # << >>
\* fetchEventWithDefinition: assert(event, 'Could not find event ...')
FetchEventWithDefinition_Unchecked(def) == TRUE
FetchEventWithDefinition(def) == EventFound(def.eventIdentifier)
\* the class of the instance fetchEventWithDefinition returns
FetchedEventClass(def) ==
    IF EventFound(def.eventIdentifier) THEN Head(eventFolder[def.eventIdentifier]) ELSE "nil"

VerifyEventParametersWithDefinition(params, def) ==
    LET name == def.eventIdentifier IN
    IF name \in DOMAIN eventParameterTypeGuards
    THEN /\ ParameterCountMatches(eventParameterTypeGuards[name], params)
         /\ ParametersAccepted(eventParameterTypeGuards[name], params)
    ELSE TRUE

\* registerBindableEvent / registerRemoteEvent: neither looks for an existing child
RegisterEvent(class, op, def) ==
    LET name == def.eventIdentifier IN
    /\ Len(eventFolder[name]) < MaxHandles
    /\ eventFolder' = [eventFolder EXCEPT ![name] = Append(@, class)]
    /\ eventParameterTypeGuards' =
         IF CarriesParameterTypeguards(def)
         THEN MapSet(eventParameterTypeGuards, name, def.parameterTypeguards)
         ELSE eventParameterTypeGuards
    /\ chanRes' = EvResult(op, name, << >>, "ok")
    /\ chanHandled' = << >>
    /\ UNCHANGED eventListeners
    /\ UNCHANGED notEv

RegisterBindableEvent(def) == RegisterEvent("BindableEvent", "registerBindableEvent", def)
RegisterRemoteEvent(def) == RegisterEvent("RemoteEvent", "registerRemoteEvent", def)

\* bindBindableEvent: bindableEvent.Event.Connect(wrapper); server bindRemoteEvent:
\* remoteEvent.OnServerEvent.Connect(wrapper).  Reading the signal of the other class is
\* an engine error.
BindEvent(class, op, def) ==
    LET name == def.eventIdentifier IN
    /\ IF ~FetchEventWithDefinition(def)
       THEN /\ chanRes' = EvResult(op, name, << >>, "NotFound")
            /\ UNCHANGED eventListeners
       ELSE IF FetchedEventClass(def) # class
       THEN /\ chanRes' = EvResult(op, name, << >>, "EngineError")
            /\ UNCHANGED eventListeners
       ELSE /\ eventListeners[name] < MaxListeners
            /\ eventListeners' = [eventListeners EXCEPT ![name] = @ + 1]
            /\ chanRes' = EvResult(op, name, << >>, "ok")
    /\ chanHandled' = << >>
    /\ UNCHANGED <<eventFolder, eventParameterTypeGuards>>
    /\ UNCHANGED notEv

BindBindableEvent(def) == BindEvent("BindableEvent", "bindBindableEvent", def)
BindRemoteEvent(def) == BindEvent("RemoteEvent", "bindRemoteEvent", def)

\* the getters that only fetch the channel and return a closure over it
EventGetters == {"getBindableEventFunction", "getRemoteEventFunction",
                 "getRemoteEventAllFunction"}
GetEventFunction(getter, def) ==
    /\ chanRes' = EvResult(getter, def.eventIdentifier, << >>,
                         IF FetchEventWithDefinition(def) THEN "ok" ELSE "NotFound")
    /\ chanHandled' = << >>
    /\ UNCHANGED <<eventFolder, eventParameterTypeGuards, eventListeners>>
    /\ UNCHANGED notEv

\* The wrappers connected by bindBindableEvent, each run with params: a wrapper whose
\* assert fails ends without calling its binding.
ListenersRun(def, params) ==
    IF VerifyEventParametersWithDefinition(params, def)
    THEN [i \in 1..eventListeners[def.eventIdentifier] |-> [listener |-> i, params |-> params]]
    ELSE << >>

\* getBindableEventFunction(def)(...params): fetch, then the returned closure
FireBindableEvent(def, params) ==
    LET out == IF ~FetchEventWithDefinition(def)
               THEN [err |-> "NotFound", handled |-> << >>]
               ELSE IF ~VerifyEventParametersWithDefinition(params, def)
               THEN [err |-> "ParameterMismatch", handled |-> << >>]
               ELSE IF FetchedEventClass(def) # "BindableEvent"
               THEN [err |-> "EngineError", handled |-> << >>]
               ELSE [err |-> "ok", handled |-> ListenersRun(def, params)]
    IN
    /\ chanRes' = EvResult("fire", def.eventIdentifier, params, out.err)
    /\ chanHandled' = out.handled
    /\ UNCHANGED <<eventFolder, eventParameterTypeGuards, eventListeners>>
    /\ UNCHANGED notEv

\* the bindable events of one process
EvNext ==
    \/ \E def \in EventDefinitions : RegisterBindableEvent(def)
    \/ \E def \in EventDefinitions : BindBindableEvent(def)
    \/ \E def \in EventDefinitions : GetEventFunction("getBindableEventFunction", def)
    \/ \E def \in EventDefinitions, params \in ArgLists : FireBindableEvent(def, params)

EvSpec == Init /\ [][EvNext]_vars

\* Lookups of channels: every register, bind, getter, invoke and fire operation, for the
\* definitions that carry validators
FetchFunctionDefinitions == {d \in FunctionDefinitions : d.hasParameterTypeguards}
FetchEventDefinitions == {d \in EventDefinitions : d.hasParameterTypeguards}
FetchNext ==
    \/ \E def \in FetchFunctionDefinitions : RegisterBindableFunction(def)
    \/ \E def \in FetchFunctionDefinitions : RegisterRemoteFunction(def)
    \/ \E def \in FetchFunctionDefinitions, b \in Bindings : BindBindableFunction(def, b)
    \/ \E def \in FetchFunctionDefinitions, b \in Bindings : BindServerSideRemoteFunction(def, b)
    \/ \E def \in FetchFunctionDefinitions, g \in FunctionGetters : GetFunction(g, def)
    \/ \E def \in FetchFunctionDefinitions, params \in ArgLists, result \in ReturnValues :
          InvokeBindableFunction(def, params, result)
    \/ \E def \in FetchEventDefinitions : RegisterBindableEvent(def)
    \/ \E def \in FetchEventDefinitions : RegisterRemoteEvent(def)
    \/ \E def \in FetchEventDefinitions : BindBindableEvent(def)
    \/ \E def \in FetchEventDefinitions : BindRemoteEvent(def)
    \/ \E def \in FetchEventDefinitions, g \in EventGetters : GetEventFunction(g, def)
    \/ \E def \in FetchEventDefinitions, params \in ArgLists : FireBindableEvent(def, params)

FetchSpec == Init /\ [][FetchNext]_vars

\* Channel registration of the server process through its lifecycle: services are
\* registered and started while channels are registered
GateNext ==
    \/ \E k \in ServiceKeys, h \in LookupHookSets : RegisterService(k, h)
    \/ ServerStart
    \/ \E k \in ServiceKeys : ServerLoopStep(k)
    \/ StartHookReturn
    \/ StartHookThrow
    \/ ServerPublishStarted
    \/ \E def \in FetchFunctionDefinitions : RegisterBindableFunction(def)
    \/ \E def \in FetchFunctionDefinitions : RegisterRemoteFunction(def)
    \/ \E def \in FetchEventDefinitions : RegisterBindableEvent(def)
    \/ \E def \in FetchEventDefinitions : RegisterRemoteEvent(def)

GateSpec == Init /\ [][GateNext]_vars

(***************************************************************************)
(* The exported orchestrators (index.ts)                                   *)
(*                                                                         *)
(* The server variables are those of the server process: this process when *)
(* it is a server, the peer this client connects to otherwise.             *)
(***************************************************************************)

\* what RunService.IsServer() and RunService.IsClient() report in a process: a server,
\* a client, and the run mode of Studio where both hold
Environments == {"server", "client", "run"}
\* RunService.IsServer() ? new CrochetServerImplementation() : getErroringObject(...)
IsServer == environment \in {"server", "run"}
\* RunService.IsClient() ? new CrochetClientImplementation() : getErroringObject(...)
IsClient == environment \in {"client", "run"}
\* the module has returned its exports: both export expressions have been evaluated, the
\* client constructor (which waits for the Crochet folder) included
IndexLoaded == environment # "unloaded" /\ (IsClient => cliConstructed)

\* the members a caller reaches through the exports
ServerOperations == {"registerService", "getService", "start", "registerRemoteFunction"}
ClientOperations == {"registerController", "getController", "start", "getRemoteEventFunction"}

\* the module starts to load in a process
LoadIndex(env) ==
    /\ environment = "unloaded"
    /\ environment' = env
    /\ UNCHANGED <<lifecycleVars, chanVars, tagVars, roleRes, remoteVars>>

\* __index of the erroring object returns nothing instead of raising
IndexMetamethod_ReturnsNil == "ok"
\* __index() { error(errorMessage) }
IndexMetamethod == "Error"

\* a member of an erroring export is read (every method call starts with this read)
ErroringIndex(object, op) ==
    /\ IndexLoaded
    /\ roleRes' = [object |-> object, op |-> op, err |-> IndexMetamethod]
    /\ UNCHANGED <<lifecycleVars, chanVars, tagVars, environment, remoteVars>>

\* the server process runs: services are registered, looked up and started
RoleServerStep ==
    \/ \E k \in ServiceKeys, h \in PeerHookSets : RegisterService(k, h)
    \/ \E k \in ServiceKeys : GetService(k)
    \/ ServerStart
    \/ \E k \in ServiceKeys : ServerLoopStep(k)
    \/ StartHookReturn
    \/ StartHookThrow
    \/ ServerPublishStarted

RoleClientStep ==
    \/ ClientConstruct
    \/ \E k \in ControllerKeys, h \in PeerHookSets : RegisterController(k, h)
    \/ \E k \in ControllerKeys : GetController(k)

RoleNext ==
    \/ \E env \in Environments : LoadIndex(env)
    \/ (environment = "client" \/ (IsServer /\ IndexLoaded)) /\ RoleServerStep
    \/ IsClient /\ RoleClientStep
    \/ \E op \in ServerOperations : ~IsServer /\ ErroringIndex("CrochetServer", op)
    \/ \E op \in ClientOperations : ~IsClient /\ ErroringIndex("CrochetClient", op)

RoleSpec == Init /\ [][RoleNext]_vars

\* CrochetClient.getRemoteEventFunction(def): a method of the object the client
\* constructor has returned
ClientGetRemoteEventFunction(def) ==
    /\ cliConstructed
    /\ GetEventFunction("getRemoteEventFunction", def)

\* The hook sets used where the construction of the client is examined.
ConstructHookSets == {{}, {"onInit"}}

\* The client from the load of its module on, next to a server that registers services
\* and remote events and starts.
ConstructNext ==
    \/ \E k \in ServiceKeys, h \in PeerHookSets : RegisterService(k, h)
    \/ \E def \in FetchEventDefinitions : RegisterRemoteEvent(def)
    \/ ServerStart
    \/ \E k \in ServiceKeys : ServerLoopStep(k)
    \/ StartHookReturn
    \/ StartHookThrow
    \/ ServerPublishStarted
    \/ ClientConstruct
    \/ \E k \in ControllerKeys, h \in ConstructHookSets : RegisterController(k, h)
    \/ \E k \in ControllerKeys : CtlInitHookReturn(k)
    \/ \E k \in ControllerKeys : CtlInitHookThrow(k)
    \/ \E def \in FetchEventDefinitions : ClientGetRemoteEventFunction(def)

ConstructSpec == Init /\ [][ConstructNext]_vars

\* Binding and calling the bindable channels of the definitions that carry validators
BindNext ==
    \/ \E def \in FetchFunctionDefinitions : RegisterBindableFunction(def)
    \/ \E def \in FetchFunctionDefinitions, b \in Bindings : BindBindableFunction(def, b)
    \/ \E def \in FetchFunctionDefinitions, params \in ArgLists, result \in ReturnValues :
          InvokeBindableFunction(def, params, result)
    \/ \E def \in FetchEventDefinitions : RegisterBindableEvent(def)
    \/ \E def \in FetchEventDefinitions : BindBindableEvent(def)
    \/ \E def \in FetchEventDefinitions, params \in ArgLists : FireBindableEvent(def, params)

BindSpec == Init /\ [][BindNext]_vars

\* The bindable channels of the definitions that carry no validator
UntypedFunctionDefinitions ==
    {d \in FunctionDefinitions : ~d.hasParameterTypeguards /\ ~d.hasReturnTypeGuard}
UntypedEventDefinitions == {d \in EventDefinitions : ~d.hasParameterTypeguards}
UntypedNext ==
    \/ \E def \in UntypedFunctionDefinitions : RegisterBindableFunction(def)
    \/ \E def \in UntypedFunctionDefinitions, b \in Bindings : BindBindableFunction(def, b)
    \/ \E def \in UntypedFunctionDefinitions : GetFunction("getBindableFunction", def)
    \/ \E def \in UntypedFunctionDefinitions, params \in ArgLists, result \in ReturnValues :
          InvokeBindableFunction(def, params, result)
    \/ \E def \in UntypedEventDefinitions : RegisterBindableEvent(def)
    \/ \E def \in UntypedEventDefinitions : BindBindableEvent(def)
    \/ \E def \in UntypedEventDefinitions : GetEventFunction("getBindableEventFunction", def)
    \/ \E def \in UntypedEventDefinitions, params \in ArgLists : FireBindableEvent(def, params)

UntypedSpec == Init /\ [][UntypedNext]_vars

(***************************************************************************)
(* Remote functions called by the client (getServerSideRemoteFunction and  *)
(* getServerSideRemotePromiseFunction)                                     *)
(*                                                                         *)
(* functionFolder is replicated to the client; the maps of guards are      *)
(* private fields of each process.  The client registers no channel of its *)
(* own here, so its maps are the empty maps of its constructor.            *)
(***************************************************************************)

notRemote == <<lifecycleVars, fnVars, evVars, tagVars, roleVars>>

\* what a binding does with a call: it returns a value or raises an error
Thrown == [type |-> "error", v |-> "thrown"]
HandlerOutcomes == ReturnValues \cup {Thrown}
\* the definitions a remote function is registered and called with
RemoteFunctionDefinitions == {d \in FunctionDefinitions : d.hasParameterTypeguards}
\* the argument lists a caller passes to a remote function
RemoteArgLists == UNION {[1..n -> ArgValues] : n \in 0..(MaxArgs - 1)}

\* verifyFunctionParametersWithDefinition, run by the client: it reads the client's map
ClientVerifyFunctionParametersWithDefinition(params, def) ==
    LET name == def.functionIdentifier IN
    IF name \in DOMAIN cliFunctionParameterTypeGuards
    THEN /\ ParameterCountMatches(cliFunctionParameterTypeGuards[name], params)
         /\ ParametersAccepted(cliFunctionParameterTypeGuards[name], params)
    ELSE TRUE

\* verifyFunctionReturnTypeWithDefinition, run by the client
ClientVerifyFunctionReturnTypeWithDefinition(returnResult, def) ==
    LET name == def.functionIdentifier IN
    IF name \in DOMAIN cliFunctionReturnTypeGuard
    THEN ReturnAccepted(cliFunctionReturnTypeGuard[name], returnResult)
    ELSE TRUE

\* The OnServerInvoke wrapper installed by bindServerSideRemoteFunction, run in the server
\* with params; result is what the binding does.  An error raised in the wrapper is raised
\* by InvokeServer in the client.
OnServerInvokeWrapper(def, params, result) ==
    LET name == def.functionIdentifier IN
    IF ~VerifyFunctionParametersWithDefinition(params, def)
    THEN [err |-> "ParameterMismatch", value |-> NoValue, handled |-> << >>]
    ELSE LET handled == <<[binding |-> onServerInvoke[name], params |-> params,
                           result |-> result]>> IN
         IF result = Thrown
         THEN [err |-> "HandlerError", value |-> NoValue, handled |-> handled]
         ELSE IF ~VerifyFunctionReturnTypeWithDefinition(result, def)
         THEN [err |-> "ReturnTypeMismatch", value |-> NoValue, handled |-> handled]
         ELSE [err |-> "ok", value |-> result, handled |-> handled]

\* remoteFunction.InvokeServer(...params) on the fetched instance: a BindableFunction has
\* no InvokeServer; without OnServerInvoke the call waits for one
InvokeServer(def, params, result) ==
    LET name == def.functionIdentifier IN
    IF FetchedFunctionClass(def) # "RemoteFunction"
    THEN [err |-> "EngineError", value |-> NoValue, handled |-> << >>, remote |-> << >>]
    ELSE IF onServerInvoke[name] = "none"
    THEN [err |-> "Yields", value |-> NoValue, handled |-> << >>, remote |-> <<params>>]
    ELSE LET inner == OnServerInvokeWrapper(def, params, result) IN
         [err |-> inner.err, value |-> inner.value, handled |-> inner.handled,
          remote |-> <<params>>]

\* client.ts:134-145  the closure returned by getServerSideRemoteFunction
BlockingClosure(def, params, result) ==
    IF ~ClientVerifyFunctionParametersWithDefinition(params, def)
    THEN [err |-> "ParameterMismatch", value |-> NoValue, handled |-> << >>, remote |-> << >>]
    ELSE LET sent == InvokeServer(def, params, result) IN
         IF sent.err # "ok"
         THEN sent
         ELSE IF ~ClientVerifyFunctionReturnTypeWithDefinition(sent.value, def)
         THEN [sent EXCEPT !.err = "ReturnTypeMismatch", !.value = NoValue]
         ELSE sent

\* getServerSideRemoteFunction(def)(...params): fetch, then the returned closure
InvokeServerSideRemoteFunction(def, params, result) ==
    LET name == def.functionIdentifier
        out == IF ~FetchFunctionWithDefinition(def)
               THEN [err |-> "NotFound", value |-> NoValue, handled |-> << >>, remote |-> << >>]
               ELSE BlockingClosure(def, params, result)
    IN
    /\ deferred = << >>
    /\ chanRes' = FnResult("getServerSideRemoteFunction", name, params, out.err, out.value)
    /\ chanHandled' = out.handled
    /\ chanRemote' = out.remote
    /\ promise' = [state |-> "none", value |-> NoValue]
    /\ UNCHANGED <<cliFunctionParameterTypeGuards, cliFunctionReturnTypeGuard, deferred>>
    /\ UNCHANGED notRemote

\* resolve is called without the result
PromiseResolve_Nothing(result) == [state |-> "resolved", value |-> NoValue]
\* client.ts:171  resolve(result)
PromiseResolve(result) == [state |-> "resolved", value |-> result]

\* getServerSideRemotePromiseFunction(def)(...params): fetch, then the returned closure up
\* to its return: the assert on the parameters, then new Promise(... Promise.defer(...))
InvokeServerSideRemotePromiseFunction(def, params, result) ==
    LET name == def.functionIdentifier
        err == IF ~FetchFunctionWithDefinition(def) THEN "NotFound"
               ELSE IF ~ClientVerifyFunctionParametersWithDefinition(params, def)
               THEN "ParameterMismatch"
               ELSE "ok"
    IN
    /\ deferred = << >>
    /\ chanRes' = FnResult("getServerSideRemotePromiseFunction", name, params, err, NoValue)
    /\ chanHandled' = << >>
    /\ chanRemote' = << >>
    /\ promise' = IF err = "ok" THEN [state |-> "pending", value |-> NoValue]
                  ELSE [state |-> "none", value |-> NoValue]
    /\ deferred' = IF err = "ok" THEN <<[def |-> def, params |-> params, result |-> result]>>
                   ELSE << >>
    /\ UNCHANGED <<cliFunctionParameterTypeGuards, cliFunctionReturnTypeGuard>>
    /\ UNCHANGED notRemote

\* client.ts:165-172  the Promise.defer callback runs: InvokeServer, the assert on the
\* result, resolve(result).  An error raised in the callback ends the callback: resolve
\* is not called, and the executor of the returned promise received no reject.
RunDeferred ==
    /\ deferred # << >>
    /\ LET call == Head(deferred)
           def == call.def
           sent == InvokeServer(def, call.params, call.result)
           out == IF sent.err # "ok"
                  THEN sent
                  ELSE IF ~ClientVerifyFunctionReturnTypeWithDefinition(sent.value, def)
                  THEN [sent EXCEPT !.err = "ReturnTypeMismatch", !.value = NoValue]
                  ELSE sent
       IN
       /\ chanRes' = FnResult("deferred", def.functionIdentifier, call.params, out.err,
                              out.value)
       /\ chanHandled' = out.handled
       /\ chanRemote' = out.remote
       /\ promise' = IF out.err = "ok" THEN PromiseResolve(out.value) ELSE promise
    /\ deferred' = << >>
    /\ UNCHANGED <<cliFunctionParameterTypeGuards, cliFunctionReturnTypeGuard>>
    /\ UNCHANGED notRemote

RemoteNext ==
    \/ \E def \in RemoteFunctionDefinitions : RegisterBindableFunction(def)
    \/ \E def \in RemoteFunctionDefinitions : RegisterRemoteFunction(def)
    \/ \E def \in RemoteFunctionDefinitions, b \in Bindings :
          BindServerSideRemoteFunction(def, b)
    \/ \E def \in RemoteFunctionDefinitions, params \in RemoteArgLists,
          result \in HandlerOutcomes : InvokeServerSideRemoteFunction(def, params, result)
    \/ \E def \in RemoteFunctionDefinitions, params \in RemoteArgLists,
          result \in HandlerOutcomes : InvokeServerSideRemotePromiseFunction(def, params, result)
    \/ RunDeferred

RemoteSpec == Init /\ [][RemoteNext]_vars

(***************************************************************************)
(* The other revision of the parameter checks (part_001)                   *)
(***************************************************************************)

\* The definitions this revision is run with: the second parameter of FnPlain is declared
\* optional (its guard accepts a number and nil).
RevisionFunctionDefinitions ==
    {d \in FunctionDefinitions : d.hasParameterTypeguards} \cup
    {[functionIdentifier |-> "FnPlain",
      hasParameterTypeguards |-> TRUE, parameterTypeguards |-> <<"string", "number?">>,
      hasReturnTypeGuard |-> FALSE, returnTypeGuard |-> "none"]}

\* the count of the arguments is not compared
RevisionCountAllowed_Always(typeGuards, params) == TRUE
\* part_001:246, 438  if (typeGuards.size() < params.size()) return false
RevisionCountAllowed(typeGuards, params) == ~(Len(typeGuards) < Len(params))

\* part_001:239-257  verifyFunctionParametersWithDefinition
RevisionVerifyFunctionParameters(params, def) ==
    LET name == def.functionIdentifier IN
    IF name \in DOMAIN functionParameterTypeGuards
    THEN /\ RevisionCountAllowed(functionParameterTypeGuards[name], params)
         /\ ParametersAccepted(functionParameterTypeGuards[name], params)
    ELSE TRUE

\* part_001:431-449  verifyEventParametersWithDefinition
RevisionVerifyEventParameters(params, def) ==
    LET name == def.eventIdentifier IN
    IF name \in DOMAIN eventParameterTypeGuards
    THEN /\ RevisionCountAllowed(eventParameterTypeGuards[name], params)
         /\ ParametersAccepted(eventParameterTypeGuards[name], params)
    ELSE TRUE

\* a call of the function check with an argument list
RevisionCheckFunction(def, params) ==
    /\ chanRes' = FnResult("verifyFunctionParametersWithDefinition", def.functionIdentifier,
                           params,
                           IF RevisionVerifyFunctionParameters(params, def)
                           THEN "ok" ELSE "ParameterMismatch", NoValue)
    /\ chanHandled' = << >>
    /\ UNCHANGED <<fnVars, notFn>>

\* a call of the event check with an argument list
RevisionCheckEvent(def, params) ==
    /\ chanRes' = FnResult("verifyEventParametersWithDefinition", def.eventIdentifier, params,
                           IF RevisionVerifyEventParameters(params, def)
                           THEN "ok" ELSE "ParameterMismatch", NoValue)
    /\ chanHandled' = << >>
    /\ UNCHANGED <<evVars, notEv>>

RevisionNext ==
    \/ \E def \in RevisionFunctionDefinitions : RegisterBindableFunction(def)
    \/ \E def \in EventDefinitions : RegisterBindableEvent(def)
    \/ \E def \in RevisionFunctionDefinitions, params \in ArgLists :
          RevisionCheckFunction(def, params)
    \/ \E def \in EventDefinitions, params \in ArgLists : RevisionCheckEvent(def, params)

RevisionSpec == Init /\ [][RevisionNext]_vars

(***************************************************************************)
(* Tag components (registerTagComponentForTag)                             *)
(*                                                                         *)
(* The component constructor is user code that receives the instance: it   *)
(* may change tags or yield, so between two constructor calls of the       *)
(* GetTagged scan the membership of a tag may change and the signals that  *)
(* are already connected are delivered.  A signal is delivered when the    *)
(* membership changes.                                                     *)
(***************************************************************************)

\* GetInstanceAddedSignal(tag) is connected: from the start of the registration call
AddedConnected_AfterScan(t) == tagPc[t] = "done"
AddedConnected(t) == tagPc[t] # "none"
\* GetInstanceRemovedSignal(tag) is connected: after the GetTagged scan
RemovedConnected_Never(t) == FALSE
RemovedConnected(t) == tagPc[t] = "done"

\* bindToInstance(instance): construct a component and store it, whatever the map holds
BindToInstance(t, e) ==
    /\ tagConstructed' = [tagConstructed EXCEPT ![t][e] = @ + 1]
    /\ tagComponents' = [tagComponents EXCEPT ![t][e] = tagConstructed[t][e] + 1]

\* the registration call up to the first constructor call of the scan (to its return
\* when no instance holds the tag)
RegisterTagComponentForTag(t) ==
    /\ tagPc[t] = "none"
    /\ taggedAtCall' = [taggedAtCall EXCEPT ![t] = tagged[t]]
    /\ scanTodo' = [scanTodo EXCEPT ![t] = tagged[t]]
    /\ tagPc' = [tagPc EXCEPT ![t] = IF tagged[t] = {} THEN "done" ELSE "scan"]
    /\ UNCHANGED <<tagged, tagComponents, tagConstructed, tagRemovedCalls, tagOps, tagLast>>
    /\ UNCHANGED notTag

\* one iteration of GetTagged(tag).forEach(bindToInstance); after the last one the
\* removed signal is connected and the call returns
ScanStep(t, e) ==
    /\ tagPc[t] = "scan"
    /\ e \in scanTodo[t]
    /\ BindToInstance(t, e)
    /\ scanTodo' = [scanTodo EXCEPT ![t] = @ \ {e}]
    /\ tagPc' = [tagPc EXCEPT ![t] = IF scanTodo[t] = {e} THEN "done" ELSE "scan"]
    /\ UNCHANGED <<tagged, taggedAtCall, tagRemovedCalls, tagOps, tagLast>>
    /\ UNCHANGED notTag

\* A membership signal fires only when the membership changes: AddTag of an instance
\* that holds the tag and RemoveTag of one that does not are calls without effect.
TagCall(op, t, e, fired) == [op |-> op, tag |-> t, instance |-> e, fired |-> fired]

\* the removed handler: if (tagComponent !== undefined) { onTagRemoved(); delete }
ComponentStored(t, e) == tagComponents[t][e] # 0

\* CollectionService.AddTag(e, t) and the delivery of the added signal
AddTag(e, t) ==
    /\ tagOps < MaxTagOps
    /\ tagOps' = tagOps + 1
    /\ tagLast' = TagCall("AddTag", t, e, e \notin tagged[t])
    /\ tagged' = [tagged EXCEPT ![t] = @ \cup {e}]
    /\ IF e \notin tagged[t] /\ AddedConnected(t)
       THEN BindToInstance(t, e)
       ELSE UNCHANGED <<tagComponents, tagConstructed>>
    /\ UNCHANGED <<tagPc, scanTodo, taggedAtCall, tagRemovedCalls>>
    /\ UNCHANGED notTag

\* CollectionService.RemoveTag(e, t) and the delivery of the removed signal
RemoveTag(e, t) ==
    /\ tagOps < MaxTagOps
    /\ tagOps' = tagOps + 1
    /\ tagLast' = TagCall("RemoveTag", t, e, e \in tagged[t])
    /\ tagged' = [tagged EXCEPT ![t] = @ \ {e}]
    /\ IF e \in tagged[t] /\ RemovedConnected(t) /\ ComponentStored(t, e)
       THEN /\ tagRemovedCalls' =
                  [tagRemovedCalls EXCEPT ![t][e] = Append(@, tagComponents[t][e])]
            /\ tagComponents' = [tagComponents EXCEPT ![t][e] = 0]
       ELSE UNCHANGED <<tagComponents, tagRemovedCalls>>
    /\ UNCHANGED <<tagPc, scanTodo, taggedAtCall, tagConstructed>>
    /\ UNCHANGED notTag

TagNext ==
    \/ \E t \in Tags : RegisterTagComponentForTag(t)
    \/ \E t \in Tags, e \in Entities : ScanStep(t, e)
    \/ \E t \in Tags, e \in Entities : AddTag(e, t)
    \/ \E t \in Tags, e \in Entities : RemoveTag(e, t)

TagSpec == TagInit /\ [][TagNext]_vars

(***************************************************************************)
(* Properties, continued                                                   *)
(***************************************************************************)

\* the first start() call has been made on the client
ClientStartCalled == Len(callers) > 0

\* one instance per key: constructed at most once, stored exactly when constructed, and
\* the stored instance is never replaced
OneInstancePerKey ==
    /\ [](\A k \in ServiceKeys :
            /\ svcConstructed[k] <= 1
            /\ (k \in DOMAIN services) <=> (svcConstructed[k] = 1)
            /\ serviceInstance[k] = svcConstructed[k])
    /\ [](\A k \in ControllerKeys :
            /\ ctlConstructed[k] <= 1
            /\ (k \in DOMAIN controllers) <=> (ctlConstructed[k] = 1)
            /\ controllerInstance[k] = ctlConstructed[k])
    /\ [][/\ \A k \in ServiceKeys, h \in LookupHookSets :
               (RegisterService(k, h) /\ k \in DOMAIN services) =>
                   (svcConstructed' = svcConstructed /\ serviceInstance' = serviceInstance)
          /\ \A k \in ControllerKeys, h \in LookupHookSets :
               (RegisterController(k, h) /\ k \in DOMAIN controllers) =>
                   (ctlConstructed' = ctlConstructed /\ controllerInstance' = controllerInstance)
          /\ \A k \in ServiceKeys :
               (GetService(k) /\ k \in DOMAIN services) =>
                   (srvRes' = Res("getService", "ok") /\ srvGot' = serviceInstance[k]
                    /\ svcConstructed' = svcConstructed)
          /\ \A k \in ControllerKeys :
               (GetController(k) /\ k \in DOMAIN controllers) =>
                   (cliRes' = Res("getController", "ok") /\ cliGot' = controllerInstance[k]
                    /\ ctlConstructed' = ctlConstructed)]_vars

\* C13 as stated: every registration of an already registered key fails with
\* DuplicateIdentifier.
C13_DuplicateKeyFails ==
    /\ OneInstancePerKey
    /\ [][/\ \A k \in ServiceKeys, h \in LookupHookSets :
               (RegisterService(k, h) /\ k \in DOMAIN services) =>
                   srvRes' = Res("registerService", "DuplicateIdentifier")
          /\ \A k \in ControllerKeys, h \in LookupHookSets :
               (RegisterController(k, h) /\ k \in DOMAIN controllers) =>
                   cliRes' = Res("registerController", "DuplicateIdentifier")]_vars

\* C13 amended: a registration of an already registered key fails, with
\* DuplicateIdentifier before start() and with InvalidState once start() has been
\* called, and constructs nothing; each key has one instance, constructed once, and
\* getService/getController return it on every call.
C13_DuplicateKeyFailsBeforeStart ==
    /\ OneInstancePerKey
    /\ [][/\ \A k \in ServiceKeys, h \in LookupHookSets :
               (RegisterService(k, h) /\ k \in DOMAIN services) =>
                   srvRes' = Res("registerService",
                                 IF ServerStartEntered THEN "InvalidState"
                                                       ELSE "DuplicateIdentifier")
          /\ \A k \in ControllerKeys, h \in LookupHookSets :
               (RegisterController(k, h) /\ k \in DOMAIN controllers) =>
                   cliRes' = Res("registerController",
                                 IF ClientStartCalled THEN "InvalidState"
                                                      ELSE "DuplicateIdentifier")]_vars

\* C13 witness: a duplicate controller was refused and getService returned the instance
\* of a registered service
C13_Witness ==
    /\ cliRes = Res("registerController", "DuplicateIdentifier")
    /\ srvRes = Res("getService", "ok")
    /\ srvGot = 1

\* C14: getService/getController of a key that was never registered fails with NotFound
\* in every lifecycle state and constructs and stores nothing.
C14_LookupNotFound ==
    [][/\ \A k \in ServiceKeys :
            (GetService(k) /\ svcConstructed[k] = 0) =>
                /\ srvRes' = Res("getService", "NotFound")
                /\ UNCHANGED <<services, svcConstructed, serviceInstance, srvGot>>
       /\ \A k \in ControllerKeys :
            (GetController(k) /\ ctlConstructed[k] = 0) =>
                /\ cliRes' = Res("getController", "NotFound")
                /\ UNCHANGED <<controllers, ctlConstructed, controllerInstance, cliGot>>]_vars

\* C14 witness: getService failed after the server had started and getController
\* failed while a controller's onStart was running
C14_Witness ==
    /\ srvRes = Res("getService", "NotFound")
    /\ srvPc = "done"
    /\ cliRes = Res("getController", "NotFound")
    /\ cliPc = "hook"

\* args has exactly one argument per validator and each validator accepts its argument
ArgumentsMatch(validators, args) ==
    /\ Len(args) = Len(validators)
    /\ \A i \in 1..Len(validators) : args[i].type = validators[i]

\* the operations that look a function channel up, and those that look an event up
FunctionLookupOps == {"bindBindableFunction", "bindServerSideRemoteFunction", "invoke"}
                         \cup FunctionGetters
EventLookupOps == {"bindBindableEvent", "bindRemoteEvent", "fire"} \cup EventGetters

\* C15: every bind, getter, invoke and fire operation on a function or event whose channel
\* was never registered fails with NotFound, and a never registered channel has no handler.
C15_UnregisteredChannelNotFound ==
    /\ \A n \in FunctionNames :
           ~FunctionFound(n) =>
               /\ onInvoke[n] = "none" /\ onServerInvoke[n] = "none"
               /\ (chanRes.op \in FunctionLookupOps /\ chanRes.name = n) =>
                      (chanRes.err = "NotFound" /\ chanHandled = << >>)
    /\ \A n \in EventNames :
           ~EventFound(n) =>
               /\ eventListeners[n] = 0
               /\ (chanRes.op \in EventLookupOps /\ chanRes.name = n) =>
                      (chanRes.err = "NotFound" /\ chanHandled = << >>)

\* C15 witness: a bind on a never registered event failed while a function is registered
C15_Witness ==
    /\ chanRes.op = "bindRemoteEvent"
    /\ chanRes.err = "NotFound"
    /\ \E n \in FunctionNames : FunctionFound(n)

\* C16: on a function channel registered with n parameter validators, an invoke with a
\* wrong argument count or a rejected argument fails and runs no binding; an invoke whose
\* n arguments are all accepted runs the bound handler exactly once, with those arguments.
C16_ParametersValidated ==
    \A def \in FunctionDefinitions :
        LET n == def.functionIdentifier IN
        (def.hasParameterTypeguards /\ FunctionFound(n)
            /\ chanRes.op = "invoke" /\ chanRes.name = n) =>
            IF ArgumentsMatch(def.parameterTypeguards, chanRes.params)
            THEN onInvoke[n] # "none" =>
                    /\ Len(chanHandled) = 1
                    /\ chanHandled[1].binding = onInvoke[n]
                    /\ chanHandled[1].params = chanRes.params
            ELSE /\ chanRes.err = "ParameterMismatch"
                 /\ chanRes.value = NoValue
                 /\ chanHandled = << >>

\* C16 witness: an invoke with one argument too many was refused while a handler is bound
C16_Witness ==
    /\ chanRes.op = "invoke"
    /\ chanRes.name = "FnTyped"
    /\ onInvoke["FnTyped"] # "none"
    /\ Len(chanRes.params) = 3
    /\ chanRes.err = "ParameterMismatch"

\* C17: on a function channel registered with a return validator, when the handler
\* returns a value the validator rejects the invoke fails with ReturnTypeMismatch and
\* returns nothing, and the handler has run exactly once.
C17_ReturnValidated ==
    \A def \in FunctionDefinitions :
        LET n == def.functionIdentifier IN
        (def.hasReturnTypeGuard /\ chanRes.op = "invoke" /\ chanRes.name = n
            /\ chanHandled # << >> /\ chanHandled[1].result.type # def.returnTypeGuard) =>
            /\ chanRes.err = "ReturnTypeMismatch"
            /\ chanRes.value = NoValue
            /\ Len(chanHandled) = 1

\* C17 witness: the handler ran and its result was refused
C17_Witness ==
    /\ chanRes.op = "invoke"
    /\ chanRes.err = "ReturnTypeMismatch"
    /\ Len(chanHandled) = 1
    /\ chanHandled[1].result.type = "string"

\* C18: on a channel whose definition carries no validator, every argument list reaches
\* the bound handler (every listener of an event) and the handler's result is what the
\* invoke returns.
C18_UntypedUnchecked ==
    /\ \A def \in UntypedFunctionDefinitions :
           LET n == def.functionIdentifier IN
           (chanRes.op = "invoke" /\ chanRes.name = n /\ onInvoke[n] # "none") =>
               /\ chanRes.err = "ok"
               /\ Len(chanHandled) = 1
               /\ chanHandled[1].binding = onInvoke[n]
               /\ chanHandled[1].params = chanRes.params
               /\ chanRes.value = chanHandled[1].result
    /\ \A def \in UntypedEventDefinitions :
           LET n == def.eventIdentifier IN
           (chanRes.op = "fire" /\ chanRes.name = n /\ EventFound(n)) =>
               /\ chanRes.err = "ok"
               /\ Len(chanHandled) = eventListeners[n]
               /\ \A i \in 1..Len(chanHandled) : chanHandled[i].params = chanRes.params

\* C18 witness: three arguments reached the handler of the untyped function and its
\* string result was returned
C18_Witness ==
    /\ chanRes.op = "invoke"
    /\ chanRes.name = "FnPlain"
    /\ chanRes.err = "ok"
    /\ Len(chanRes.params) = 3
    /\ Len(chanHandled) = 1
    /\ chanRes.value.type = "string"

\* C19: on an event channel registered with parameter validators, a fire with a wrong
\* argument count or a rejected argument fails and runs none of the listeners.
C19_FireValidated ==
    \A def \in EventDefinitions :
        LET n == def.eventIdentifier IN
        (def.hasParameterTypeguards /\ EventFound(n) /\ chanRes.op = "fire" /\ chanRes.name = n
            /\ ~ArgumentsMatch(def.parameterTypeguards, chanRes.params)) =>
            /\ chanRes.err = "ParameterMismatch"
            /\ chanHandled = << >>

\* C19 witness: a fire with two arguments, the second of the wrong type, was refused with
\* two listeners bound
C19_Witness ==
    /\ chanRes.op = "fire"
    /\ chanRes.name = "EvTyped"
    /\ eventListeners["EvTyped"] = 2
    /\ Len(chanRes.params) = 2
    /\ chanRes.err = "ParameterMismatch"

\* the registration call for tag t returns in this step
RegistrationReturns(t) == tagPc[t] # "done" /\ tagPc'[t] = "done"

\* C20: when the registration call for a tag returns, every instance that held the tag
\* when it was called has had exactly one component constructed.
C20_OneComponentPerTaggedInstance ==
    [][\A t \in Tags :
          RegistrationReturns(t) =>
              \A e \in taggedAtCall'[t] : tagConstructed'[t][e] = 1]_vars

\* C21: once a tag binding is registered, an add notification for an instance that
\* already has a component in the map constructs nothing and leaves the entry as it is.
C21_DuplicateAddIsNoOp ==
    [][\A t \in Tags, e \in Entities :
          (AddTag(e, t) /\ e \notin tagged[t] /\ tagPc[t] = "done" /\ ComponentStored(t, e)) =>
              /\ tagConstructed'[t][e] = tagConstructed[t][e]
              /\ tagComponents'[t][e] = tagComponents[t][e]]_vars

\* a teardown hook is called at most once per component
TeardownAtMostOnce ==
    \A t \in Tags, e \in Entities :
        \A i, j \in 1..Len(tagRemovedCalls[t][e]) :
            tagRemovedCalls[t][e][i] = tagRemovedCalls[t][e][j] => i = j

LiveComponents(t) == {e \in Entities : tagComponents[t][e] # 0}

\* C23: once a tag binding is registered, the instances with a component in its map are
\* the instances that hold the tag, and every component constructed for an instance that
\* has lost the tag has been torn down.
C23_MapMatchesMembership ==
    \A t \in Tags :
        tagPc[t] = "done" =>
            /\ LiveComponents(t) = tagged[t]
            /\ \A e \in Entities \ tagged[t] :
                   Len(tagRemovedCalls[t][e]) = tagConstructed[t][e]

\* the binding of tag u is as it was: its map, its constructions and its teardowns
BindingUnchanged(u) ==
    /\ tagComponents'[u] = tagComponents[u]
    /\ tagConstructed'[u] = tagConstructed[u]
    /\ tagRemovedCalls'[u] = tagRemovedCalls[u]

\* C24: an add or remove notification (and a registration) for one tag changes nothing in
\* the binding of another tag, and an instance that holds two registered tags has a
\* component in the map of each binding.
C24_BindingsIndependent ==
    /\ [](\A t \in Tags : tagPc[t] = "done" => tagged[t] \subseteq LiveComponents(t))
    /\ [][\A t \in Tags, e \in Entities :
             (AddTag(e, t) \/ RemoveTag(e, t) \/ ScanStep(t, e)
                 \/ RegisterTagComponentForTag(t)) =>
                 \A u \in Tags \ {t} : BindingUnchanged(u) /\ tagged'[u] = tagged[u]]_vars

\* C24 witness: an instance got the second of two registered tags and has a component in
\* both maps
C24_Witness ==
    \E e \in Entities :
        /\ \A t \in Tags : tagPc[t] = "done" /\ e \in tagged[t] /\ tagComponents[t][e] # 0
        /\ tagLast.op = "AddTag" /\ tagLast.instance = e /\ tagLast.fired

\* C25: registerBindableFunction for a name that already has a child in FunctionFolder
\* fails with DuplicateIdentifier, creates no child and leaves the stored guards as they are.
C25_DuplicateBindableFunctionFails ==
    [][\A def \in FunctionDefinitions :
          (RegisterBindableFunction(def) /\ functionFolder[def.functionIdentifier] # << >>) =>
              /\ chanRes'.err = "DuplicateIdentifier"
              /\ UNCHANGED <<functionFolder, functionParameterTypeGuards,
                             functionReturnTypeGuard, onInvoke, onServerInvoke>>]_vars

\* C25 witness: a second registerBindableFunction was refused on a channel with a handler
C25_Witness ==
    /\ chanRes.op = "registerBindableFunction"
    /\ chanRes.err = "DuplicateIdentifier"
    /\ functionFolder[chanRes.name] = <<"BindableFunction">>
    /\ onInvoke[chanRes.name] # "none"

\* C26: registerBindableEvent, registerRemoteFunction and registerRemoteEvent refuse a name
\* that already has a child, so a folder never holds two children of one name.
C26_OneHandlePerIdentifier ==
    /\ \A name \in FunctionNames : Len(functionFolder[name]) <= 1
    /\ \A name \in EventNames : Len(eventFolder[name]) <= 1

\* the step registers a function channel, or an event channel
RegistersFunction(def) == RegisterBindableFunction(def) \/ RegisterRemoteFunction(def)
RegistersEvent(def) == RegisterBindableEvent(def) \/ RegisterRemoteEvent(def)

\* C27: in every lifecycle state a channel can be registered for a name that has no
\* child yet; the registration succeeds, creates the child, and leaves the lifecycle
\* state and the service map as they are.
C27_RegistrationNotGated ==
    /\ [](\A def \in FetchFunctionDefinitions :
            functionFolder[def.functionIdentifier] = << >> =>
                /\ ENABLED RegisterBindableFunction(def)
                /\ ENABLED RegisterRemoteFunction(def))
    /\ [](\A def \in FetchEventDefinitions :
            eventFolder[def.eventIdentifier] = << >> =>
                /\ ENABLED RegisterBindableEvent(def)
                /\ ENABLED RegisterRemoteEvent(def))
    /\ [][\A def \in FetchFunctionDefinitions :
            (RegistersFunction(def) /\ functionFolder[def.functionIdentifier] = << >>) =>
                /\ chanRes'.err = "ok"
                /\ Len(functionFolder'[def.functionIdentifier]) = 1
                /\ UNCHANGED lifecycleVars]_vars
    /\ [][\A def \in FetchEventDefinitions :
            (RegistersEvent(def) /\ eventFolder[def.eventIdentifier] = << >>) =>
                /\ chanRes'.err = "ok"
                /\ Len(eventFolder'[def.eventIdentifier]) = 1
                /\ UNCHANGED lifecycleVars]_vars

\* C27 witness: a remote function was registered while a start hook is running, and it
\* is the only child of its name
C27_Witness ==
    /\ srvPc = "hook"
    /\ chanRes.op = "registerRemoteFunction"
    /\ chanRes.err = "ok"
    /\ functionFolder[chanRes.name] = <<"RemoteFunction">>

\* C28: once the module has loaded, exactly one of the two exports is an orchestrator;
\* every member access on the other export raises an error and changes no state, and in
\* a server process the client orchestrator's state never changes.
C28_OneRoleLive ==
    /\ [](IndexLoaded => (IsServer # IsClient))
    /\ [](roleRes.object = "CrochetClient" => (IsServer /\ roleRes.err = "Error"))
    /\ [](roleRes.object = "CrochetServer" => (IsClient /\ roleRes.err = "Error"))
    /\ [][roleRes' # roleRes => UNCHANGED <<lifecycleVars, chanVars, tagVars, environment>>]_vars
    /\ [][environment = "server" => UNCHANGED <<cliVars, cliLookupVars>>]_vars

\* C28 witness: in a server process whose start sequence has finished, start was called
\* on the client export and raised
C28_Witness ==
    /\ environment = "server"
    /\ srvPc = "done"
    /\ roleRes = [object |-> "CrochetClient", op |-> "start", err |-> "Error"]

\* C29: the start hooks are invoked in registration order: when the start hook of a
\* service has been invoked, so has the start hook of every service that was registered
\* before it and has one.
C29_StartHooksInRegistrationOrder ==
    \A i, j \in 1..Len(srvRegOrder) :
        (/\ i < j
         /\ "onStart" \in services[srvRegOrder[i]]
         /\ svcStart[srvRegOrder[j]] # "none")
            => svcStart[srvRegOrder[i]] # "none"

\* the number of onHeartbeat calls one Heartbeat adds for a class with these hooks
TickCalls(hooks) == IF "onHeartbeat" \in hooks THEN 1 ELSE 0

\* C30, server half: no onHeartbeat of a service runs before start() was called; a
\* service is connected to Heartbeat at most once, exactly once after the start sequence
\* if it has the hook, and is never disconnected; every Heartbeat after the start
\* sequence calls each such hook once.
C30_ServerTickHooks ==
    /\ [](\A k \in ServiceKeys : srvHbCalls[k] > 0 => starting)
    /\ [](\A k \in ServiceKeys : Occurrences(srvHeartbeat, k) <= 1 /\ srvHbCalls[k] <= srvTicks)
    /\ [](srvPc = "done" =>
            \A k \in DOMAIN services : Occurrences(srvHeartbeat, k) = TickCalls(services[k]))
    /\ [][\A k \in ServiceKeys :
            Occurrences(srvHeartbeat', k) >= Occurrences(srvHeartbeat, k)]_vars
    /\ [][(srvPc = "done" /\ srvTicks' = srvTicks + 1) =>
            \A k \in DOMAIN services :
                srvHbCalls'[k] = srvHbCalls[k] + TickCalls(services[k])]_vars

\* C30: no onHeartbeat of a controller runs before start() was called; a controller is
\* connected to Heartbeat at most once, exactly once after the start sequence if it has
\* the hook, and is never disconnected; every Heartbeat after the start sequence calls
\* each such hook once.
C30_TickHooks ==
    /\ [](\A k \in ControllerKeys : cliHbCalls[k] > 0 => startPromise # "undefined")
    /\ [](\A k \in ControllerKeys :
            Occurrences(cliHeartbeat, k) <= 1 /\ cliHbCalls[k] <= cliTicks)
    /\ [](cliPc = "done" =>
            \A k \in DOMAIN controllers :
                Occurrences(cliHeartbeat, k) = TickCalls(controllers[k]))
    /\ [][\A k \in ControllerKeys :
            Occurrences(cliHeartbeat', k) >= Occurrences(cliHeartbeat, k)]_vars
    /\ [][(cliPc = "done" /\ cliTicks' = cliTicks + 1) =>
            \A k \in DOMAIN controllers :
                cliHbCalls'[k] = cliHbCalls[k] + TickCalls(controllers[k])]_vars

\* C30 witness: the start sequence of a client with two controllers that have the hook
\* is over and a Heartbeat has called each hook once
C30_Witness ==
    /\ cliPc = "done"
    /\ cliTicks = 1
    /\ DOMAIN controllers = ControllerKeys
    /\ \A k \in ControllerKeys : "onHeartbeat" \in controllers[k] /\ cliHbCalls[k] = 1

\* C31: the lifecycle state is monotonic: once start() has been entered on the server
\* (starting) or called on the client (startPromise set), no step returns the
\* orchestrator to the unstarted state.
C31_LifecycleMonotonic ==
    /\ [][starting => starting']_vars
    /\ [][startPromise # "undefined" => startPromise' # "undefined"]_vars
    /\ [][srvPc # "idle" => srvPc' # "idle"]_vars
    /\ [][cliPc # "idle" => cliPc' # "idle"]_vars

\* C31 witness: a start hook of the server has failed, the client has called start() and
\* a later registerController was refused; both orchestrators are still started
C31_Witness ==
    /\ srvPc = "failed"
    /\ starting
    /\ startPromise = "pending"
    /\ cliRes = Res("registerController", "InvalidState")

\* the validators the definition carries accept the argument list
DefinitionAccepts(def, params) ==
    /\ Len(def.parameterTypeguards) = Len(params)
    /\ \A i \in 1..Len(params) : Guard(def.parameterTypeguards[i], params[i])

\* C32: a call through getServerSideRemoteFunction or its promise variant with arguments
\* the validators of the definition reject fails with ParameterMismatch in the client
\* and sends nothing to the server.
C32_ClientValidatesParameters ==
    \A def \in RemoteFunctionDefinitions :
        (/\ chanRes.op \in {"getServerSideRemoteFunction", "getServerSideRemotePromiseFunction",
                            "deferred"}
         /\ chanRes.name = def.functionIdentifier
         /\ FetchedFunctionClass(def) = "RemoteFunction"
         /\ onServerInvoke[def.functionIdentifier] # "none"
         /\ ~DefinitionAccepts(def, chanRes.params))
            => (chanRes.err = "ParameterMismatch" /\ chanRemote = << >> /\ deferred = << >>)

\* C33: when the deferred part of a promise variant meets a result that the return
\* validator rejects, the promise it returned is rejected with that failure: it is neither
\* resolved nor left pending with nothing left to settle it.
C33_ReturnMismatchRejectsPromise ==
    (chanRes.op = "deferred" /\ chanRes.err = "ReturnTypeMismatch" /\ deferred = << >>)
        => promise.state = "rejected"

\* C34: the promise variant and the blocking variant of a remote function agree: when the
\* deferred part runs, the promise is resolved with v exactly when the blocking closure,
\* called in the same state with the same arguments and binding behaviour, returns v, and
\* both run the binding the same number of times, once when they succeed; the promise
\* variant refuses an argument list before sending it exactly when the blocking one does.
C34_VariantsAgree ==
    /\ [][(deferred # << >> /\ deferred' = << >>) =>
            LET call == Head(deferred)
                blocking == BlockingClosure(call.def, call.params, call.result)
            IN /\ (promise'.state = "resolved") <=> (blocking.err = "ok")
               /\ blocking.err = "ok" => promise'.value = blocking.value
               /\ chanHandled' = blocking.handled
               /\ chanRemote' = blocking.remote
               /\ blocking.err = "ok" => Len(blocking.handled) = 1]_vars
    /\ [](\A def \in RemoteFunctionDefinitions, result \in HandlerOutcomes :
            (/\ chanRes.op = "getServerSideRemotePromiseFunction"
             /\ chanRes.name = def.functionIdentifier
             /\ chanRes.err # "NotFound")
                => LET blocking == BlockingClosure(def, chanRes.params, result) IN
                   (chanRes.err = "ParameterMismatch")
                       <=> (blocking.err = "ParameterMismatch" /\ blocking.remote = << >>))

\* C34 witness: a promise of the promise variant was resolved with the value its binding
\* returned, after one run of the binding
C34_Witness ==
    /\ chanRes.op = "deferred"
    /\ chanRes.err = "ok"
    /\ promise = [state |-> "resolved", value |-> [type |-> "boolean", v |-> "true"]]
    /\ Len(chanHandled) = 1
    /\ chanRemote = <<chanRes.params>>

ParamAt(params, i) == IF i <= Len(params) THEN params[i] ELSE NoValue

C36_ControllerInitAtRegistration ==
    /\ [][\A k \in ControllerKeys :
            ctlConstructed'[k] # ctlConstructed[k] =>
                /\ k \in DOMAIN controllers'
                /\ "onInit" \in controllers'[k] => ctlInit'[k] = "running"
                /\ \A j \in DOMAIN controllers :
                       ("onInit" \in controllers[j] /\ ctlInit[j] # "running")
                           => ctlInit[j] \in {"done", "failed"}]_vars
    /\ [][\A k \in ControllerKeys :
            (ctlInit'[k] = "running" /\ ctlInit[k] # "running") =>
                (startPromise = "undefined" /\ ctlConstructed'[k] # ctlConstructed[k])]_vars
    /\ [](\A k \in DOMAIN controllers : "onInit" \in controllers[k] => ctlInit[k] # "none")

C37_FailedStartBlocksClients ==
    /\ [](srvPc = "failed" =>
            /\ startedMarkers = 0
            /\ starting
            /\ cliPc \in {"idle", "waiting"}
            /\ startPromise # "resolved"
            /\ \A i \in 1..Len(callers) : callers[i] = "pending")
    /\ [][srvPc = "failed" =>
            /\ srvPc' = "failed"
            /\ svcStartCount' = svcStartCount
            /\ startedMarkers' = startedMarkers]_vars

\* C37 witness: a start hook failed before another service was visited, a second start()
\* of the server was refused, and two start() calls of the client are pending
C37_Witness ==
    /\ srvPc = "failed"
    /\ srvTodo # {}
    /\ srvRes = Res("start", "InvalidState")
    /\ cliPc = "waiting"
    /\ Len(callers) = 2

\* C38: a successful bindBindableFunction makes its binding the handler of the channel,
\* also when the channel already had one, and an invoke that succeeds ran the current
\* handler once and no other; a successful bindBindableEvent adds one listener, and a
\* fire that succeeds reached every listener once with the arguments fired.
C38_BindReplacesConnectAdds ==
    /\ [][\A def \in FetchFunctionDefinitions, b \in Bindings :
            (BindBindableFunction(def, b) /\ chanRes'.err = "ok")
                => onInvoke'[def.functionIdentifier] = b]_vars
    /\ []((chanRes.op = "invoke" /\ chanRes.err = "ok") =>
            /\ Len(chanHandled) = 1
            /\ chanHandled[1].binding = onInvoke[chanRes.name])
    /\ [][\A def \in FetchEventDefinitions :
            (BindBindableEvent(def) /\ chanRes'.err = "ok")
                => eventListeners'[def.eventIdentifier] = eventListeners[def.eventIdentifier] + 1]_vars
    /\ []((chanRes.op = "fire" /\ chanRes.err = "ok") =>
            /\ Len(chanHandled) = eventListeners[chanRes.name]
            /\ \A i \in 1..Len(chanHandled) :
                   chanHandled[i] = [listener |-> i, params |-> chanRes.params])

\* C38 witness: a fire reached the two listeners bound to its event, on a process whose
\* function channel has a handler
C38_Witness ==
    /\ chanRes.op = "fire"
    /\ chanRes.err = "ok"
    /\ eventListeners[chanRes.name] = 2
    /\ Len(chanHandled) = 2
    /\ \E name \in FunctionNames : onInvoke[name] = "h2"

\* the components constructed for instance e under the binding of tag t whose
\* onTagRemoved has not been called
NotTornDown(t, e) ==
    {c \in 1..tagConstructed[t][e] :
        \A i \in 1..Len(tagRemovedCalls[t][e]) : tagRemovedCalls[t][e][i] # c}

\* C39: for a registered tag binding, an instance that loses the tag and gains it again
\* gets a newly constructed component, no component is torn down twice or stored again
\* after its teardown, and at every point an instance has at most one component that was
\* constructed for it and not torn down.
C39_OneLiveComponentPerEntity ==
    /\ [](\A t \in Tags, e \in Entities :
            tagPc[t] = "done" =>
                /\ \A i, j \in 1..Len(tagRemovedCalls[t][e]) :
                       tagRemovedCalls[t][e][i] = tagRemovedCalls[t][e][j] => i = j
                /\ ComponentStored(t, e) => tagComponents[t][e] \in NotTornDown(t, e)
                /\ Cardinality(NotTornDown(t, e)) <= 1)
    /\ [][\A t \in Tags, e \in Entities :
             (AddTag(e, t) /\ e \notin tagged[t] /\ tagPc[t] = "done") =>
                 /\ tagConstructed'[t][e] = tagConstructed[t][e] + 1
                 /\ tagComponents'[t][e] = tagConstructed'[t][e]]_vars

\* a method of the client orchestrator runs or a controller init hook ends in this step
ClientActs ==
    \/ \E k \in ControllerKeys, h \in ConstructHookSets : RegisterController(k, h)
    \/ \E k \in ControllerKeys : CtlInitHookReturn(k) \/ CtlInitHookThrow(k)
    \/ \E def \in FetchEventDefinitions : ClientGetRemoteEventFunction(def)

\* C40: the client constructor returns only after the server's start() has parented the
\* Crochet folder; every controller registration, controller init hook and client-side
\* channel lookup happens after start() was entered on the server, and as long as the
\* server has not called start() the client constructor cannot return.
C40_ClientAfterServerStart ==
    /\ [](cliConstructed => ServerStartEntered /\ folderParented)
    /\ [](\A k \in ControllerKeys :
            (k \in DOMAIN controllers \/ ctlInit[k] # "none") => ServerStartEntered)
    /\ [][ClientActs => ServerStartEntered /\ cliConstructed]_vars
    /\ [](~ServerStartEntered => ~ENABLED ClientConstruct)

\* C40 witness: after the server's start() the client was constructed, registered a
\* controller whose init hook has ended, and looked up a remote event the server registered
C40_Witness ==
    /\ cliConstructed
    /\ \E k \in DOMAIN controllers : ctlInit[k] = "done"
    /\ chanRes.op = "getRemoteEventFunction"
    /\ chanRes.err = "ok"
====
